---------------------------- MODULE Spec2Model ----------------------------
(***************************************************************************)
(* A model of the vulkan-playground engine core: the deletion queue, the   *)
(* uniform-buffer padding helper, scene construction and the draw          *)
(* dispatcher, and the CPU/GPU frame protocol of VulkanEngine.             *)
(***************************************************************************)
EXTENDS Integers, Sequences, FiniteSets, TLC

VARIABLES
    \* DeletionQueue (src/src/vk_engine.h:83-99)
    deletors,       \* std::deque of teardown actions, in push order
    executed,       \* every teardown action called so far, in call order
    pushed,         \* history: every action ever pushed, in push order
    marks,          \* history: Len(pushed) at each flush()
    \* pad_uniform_buffer_size as a function under test
    padSize,        \* originalSize
    padAlign,       \* _gpuProperties.limits.minUniformBufferOffsetAlignment
    padOut,         \* result of the call, NoValue before it
    padTwice,       \* result of padding padOut again, NoValue before it
    \* the scene and one draw pass
    matAddr,        \* address of each Material in _materials (Material*)
    meshAddr,       \* address of each Mesh in _meshes (Mesh*)
    materials,      \* _materials: name -> Material
    added,          \* history: _renderables as pushed, before the sort
    renderables,    \* _renderables
    scenePc,        \* "init_scene" before init_scene() has run, "ready" after
    minUboAlign,    \* _gpuProperties.limits.minUniformBufferOffsetAlignment
    frameNumber,    \* _frameNumber
    pass,           \* what the last draw_objects() call wrote and recorded
    \* the control thread and the GPU
    pc,             \* the statement the control thread is at
    ret,            \* where the running immediate_submit() returns to
    uploadId,       \* which upload the running immediate_submit() carries
    idx,            \* loop index of load_meshes (mesh) and cleanup (frameIdx)
    bQuit,          \* bQuit of run()
    renderFence,    \* _frames[s].renderFence: "null", "signaled", "unsignaled"
    uploadFence,    \* _uploadContext._uploadFence
    cmdBuf,         \* _frames[s].mainCommandBuffer: its recording state
    gpuQueue,       \* _graphicsQueue: submissions not yet completed, in order
    currFrame,      \* slot of the currFrame reference taken at the top of draw()
    tickLog,        \* history: the calls of the running draw(), in order
    slotHistory,    \* history: the slot each draw() selected
    drawsDone,      \* history: number of draw() calls that returned
    stagingDestroyed, \* uploads whose staging buffer upload_mesh has destroyed
    lastCall,       \* history: the latest GPU API call with a result, and the result
    uploadCmd,      \* _uploadContext._commandBuffer: its recording state
    isLog,          \* history: the steps of the running immediate_submit(), in order
    pipelineLocals, \* locals and output of the running init_pipelines()
    recorded,       \* the commands in _frames[s].mainCommandBuffer, in order
    teardown,       \* history: the destroy calls of cleanup(), in call order
    semLog,         \* history: the semaphore signals and waits handed to the GPU, in order
    \* the event loop of run()
    camPos,         \* _camPos
    useColoredTrianglePipeline, \* the member of the same name
    lastEvent,      \* history: the event the loop handled last
    polled          \* history: number of events handled

dqVars == <<deletors, executed, pushed, marks>>
padVars == <<padSize, padAlign, padOut, padTwice>>
sceneVars == <<matAddr, meshAddr, materials, added, renderables, scenePc>>
frameVars == <<minUboAlign, frameNumber, pass>>
cpuVars == <<pc, ret, uploadId, idx, bQuit>>
gpuVars == <<renderFence, uploadFence, cmdBuf, gpuQueue, stagingDestroyed>>
tickVars == <<currFrame, tickLog, slotHistory, drawsDone>>
callVars == <<lastCall, uploadCmd, isLog, pipelineLocals>>
engineVars == <<cpuVars, gpuVars, tickVars, callVars, recorded, teardown, semLog>>
runVars == <<camPos, useColoredTrianglePipeline, lastEvent, polled>>
vars == <<dqVars, padVars, sceneVars, frameVars, engineVars, runVars>>

NoValue == 0 - 1

----------------------------------------------------------------------------
(* Bounds of the model *)

\* width in bits of the scaled-down size_t the arithmetic is done in
SizeBits == 10
\* pad_uniform_buffer_size is tried on every alignment 0..MaxAlign
MaxAlign == 16
\* most push_function calls of one DeletionQueue run
MaxPush == 4
\* most flush() calls of one DeletionQueue run
MaxFlush == 2
\* init_scene lays its triangles on the grid -GridHalf..GridHalf squared
\* (20 in the source, src/src/vk_initializers.h:1282)
GridHalf == 1
\* draw() is called at most MaxFrames times
MaxFrames == 3
\* draw_objects is tried on every render-object sequence of at most MaxObjects
MaxObjects == 3
\* number of images the swapchain was built with
SwapchainImageCount == 2
\* at most this many of the shader loads of one init_pipelines fail
MaxShaderFailures == 1
\* events handled by the event loop on its own
MaxEvents == 3

----------------------------------------------------------------------------
(* Machine arithmetic on size_t *)

RECURSIVE Pow2(_)
Pow2(n) == IF n = 0 THEN 1 ELSE 2 * Pow2(n - 1)

SizeMod == Pow2(SizeBits)
SizeMax == SizeMod - 1

\* a + b in size_t: unsigned arithmetic wraps
SizeAdd(a, b) == (a + b) % SizeMod

RECURSIVE BitAnd(_, _)
BitAnd(a, b) ==
    IF a = 0 \/ b = 0 THEN 0
    ELSE (a % 2) * (b % 2) + 2 * BitAnd(a \div 2, b \div 2)

\* ~a in size_t
BitNot(a) == SizeMax - a

IsPowerOfTwo(a) == \E k \in 0..(SizeBits - 1) : a = Pow2(k)

----------------------------------------------------------------------------
(* VulkanEngine::pad_uniform_buffer_size *)

\* a slip the rounding could have: the "- 1" of the round-up left out
pad_uniform_buffer_size_off_by_one(originalSize, minUboAlignment) ==
    IF minUboAlignment > 0
    THEN BitAnd(SizeAdd(originalSize, minUboAlignment), BitNot(minUboAlignment - 1))
    ELSE originalSize

pad_uniform_buffer_size(originalSize, minUboAlignment) ==
    IF minUboAlignment > 0
    THEN BitAnd(SizeAdd(SizeAdd(originalSize, minUboAlignment), SizeMax),
                BitNot(minUboAlignment - 1))
    ELSE originalSize

----------------------------------------------------------------------------
(* DeletionQueue *)

TeardownActions == {"f1", "f2", "f3"}

push_function(q, function) == Append(q, function)

\* a slip the iteration could have: begin() to end() instead of rbegin() to rend()
flush_calls_forward(q) == q

\* the calls flush() makes: it walks from rbegin() (the last element) to rend()
RECURSIVE ReverseFrom(_, _)
ReverseFrom(q, it) == IF it = 0 THEN <<>> ELSE <<q[it]>> \o ReverseFrom(q, it - 1)

flush_calls(q) == ReverseFrom(q, Len(q))

\* a slip flush() could have: the queue left as it was
clear_nothing(q) == q

\* deletors.clear()
clear(q) == <<>>

DQInit ==
    /\ deletors = <<>>
    /\ executed = <<>>
    /\ pushed = <<>>
    /\ marks = <<>>

\* DeletionQueue::push_function on the queue of the model
QueuePush(function) ==
    /\ deletors' = push_function(deletors, function)
    /\ pushed' = Append(pushed, function)
    /\ UNCHANGED <<executed, marks>>

\* DeletionQueue::flush: call every deletor, then deletors.clear()
QueueFlush ==
    /\ executed' = executed \o flush_calls(deletors)
    /\ deletors' = clear(deletors)
    /\ marks' = Append(marks, Len(pushed))
    /\ UNCHANGED pushed

----------------------------------------------------------------------------
(* Materials, meshes and render objects *)

FRAME_OVERLAP == 2
SizeofGPUSceneData == 80
NullPtr == 0
NullHandle == "VK_NULL_HANDLE"

MaterialNames == {"defaultmesh", "defaultmesh_duplicate", "texturedmesh"}
MeshNames == {"monkey", "wolf", "maleHuman", "triangle", "empire"}

\* the addresses the nodes of an unordered_map may get: distinct and not null
AddrMaps(names) ==
    {f \in [names -> 1..Cardinality(names)] :
        \A n1, n2 \in names : f[n1] = f[n2] => n1 = n2}

\* create_material: a Material with the pipeline and the layout, no texture
create_material(pipeline, layout) ==
    [pipeline |-> pipeline, pipelineLayout |-> layout, textureSet |-> NullHandle]

\* _materials after the three create_material calls of init_pipelines, given
\* the handles build_pipeline returned
create_materials(meshPipeline, texPipeline) ==
    [n \in MaterialNames |->
        IF n = "texturedmesh"
        THEN create_material(texPipeline, "texturedPipeLayout")
        ELSE create_material(meshPipeline, "_meshPipelineLayout")]

\* the registry as init_pipelines leaves it when every pipeline was built
MaterialsAfterInitPipelines == create_materials("_meshPipeline", "texPipeline")

\* get_material / get_mesh: the address of the entry, nullptr when not found
get_material(name) == IF name \in DOMAIN materials THEN matAddr[name] ELSE NullPtr
get_mesh(name) == IF name \in DOMAIN meshAddr THEN meshAddr[name] ELSE NullPtr

\* object.material-> : the Material a non-null Material* points to
MaterialAt(ptr) == materials[CHOOSE n \in MaterialNames : matAddr[n] = ptr]

RenderObject(meshName, materialName, transform) ==
    [mesh |-> get_mesh(meshName), material |-> get_material(materialName),
     transformMatrix |-> transform]

\* a % b of C++ on ints: the remainder takes the sign of a
CRem(a, b) == IF a >= 0 THEN a % b ELSE 0 - ((0 - a) % b)

GridWidth == 2 * GridHalf + 1

\* a slip the loops could have: the upper end left out (x < h, y < h)
GridObjects_exclusive_end ==
    [k \in 1..((GridWidth - 1) * (GridWidth - 1)) |->
        LET x == ((k - 1) \div (GridWidth - 1)) - GridHalf
            y == ((k - 1) % (GridWidth - 1)) - GridHalf
        IN RenderObject("triangle",
                        IF CRem(y, 2) = 0 THEN "defaultmesh_duplicate" ELSE "defaultmesh",
                        <<"tri", x, y>>)]

\* the triangles of the loops "for x in -GridHalf..GridHalf, for y in the same"
GridObjects ==
    [k \in 1..(GridWidth * GridWidth) |->
        LET x == ((k - 1) \div GridWidth) - GridHalf
            y == ((k - 1) % GridWidth) - GridHalf
        IN RenderObject("triangle",
                        IF CRem(y, 2) = 0 THEN "defaultmesh_duplicate" ELSE "defaultmesh",
                        <<"tri", x, y>>)]

\* _renderables after the push_backs of init_scene, before the sort
SceneAsPushed ==
    << RenderObject("monkey", "defaultmesh", <<"monkey", 0, 0>>),
       RenderObject("wolf", "defaultmesh", <<"wolf", 0, 0>>),
       RenderObject("maleHuman", "defaultmesh", <<"maleHuman", 0, 0>>) >>
    \o GridObjects
    \o << RenderObject("empire", "texturedmesh", <<"map", 0, 0>>) >>

\* a slip the comparator could have: the material is not compared
sortComparator_mesh_only(l, r) == l.mesh < r.mesh

\* a slip the comparator could have: the mesh is not compared
sortComparator_material_only(l, r) == l.material < r.material

\* sortComparator of init_scene: by material address, then by mesh address
sortComparator(l, r) ==
    IF l.material = r.material THEN l.mesh < r.mesh ELSE l.material < r.material

\* std::sort is not stable: objects the comparator does not order may come out
\* in either order. tieFirst picks where an object goes among its equivalents.
RECURSIVE SortedInsert(_, _, _)
SortedInsert(x, s, tieFirst) ==
    IF s = <<>> THEN <<x>>
    ELSE IF sortComparator(x, Head(s))
            \/ (tieFirst /\ ~sortComparator(Head(s), x))
         THEN <<x>> \o s
         ELSE <<Head(s)>> \o SortedInsert(x, Tail(s), tieFirst)

RECURSIVE std_sort(_, _)
std_sort(s, tieFirst) ==
    IF s = <<>> THEN <<>>
    ELSE SortedInsert(s[Len(s)], std_sort(SubSeq(s, 1, Len(s) - 1), tieFirst), tieFirst)

----------------------------------------------------------------------------
(* draw_objects *)

\* get_current_frame: the index of the slot it returns
get_current_frame(fn) == fn % FRAME_OVERLAP

\* size_t * int, as in pad_uniform_buffer_size(...) * frameIndex
SizeMul(a, b) == (a * b) % SizeMod

\* a slip the conversion could have: a type too narrow for the offset
ToUint32_narrow(x) == x % 256

\* size_t to uint32_t: every value of the scaled size_t fits
ToUint32(x) == x

\* a slip the elision could have: rebinding for every object
NeedsPipelineBind_always(object, lastMaterial) == TRUE

\* line 1221: only bind the pipeline if it does not match the bound one
NeedsPipelineBind(object, lastMaterial) == object.material # lastMaterial

\* a slip the elision could have: the vertex buffer bound for the first object only
NeedsVertexBind_first_only(object, lastMesh) == lastMesh = NullPtr

\* line 1246: only bind the mesh if it is a different one from the last bind
NeedsVertexBind(object, lastMesh) == object.mesh # lastMesh

\* one iteration of the dispatch loop (lines 1216-1255) for object i (from 0)
DispatchObject(object, i, st, fn, minUbo) ==
    LET bindPipeline == NeedsPipelineBind(object, st.lastMaterial)
        material == MaterialAt(object.material)
        frameIndex == fn % FRAME_OVERLAP
        uniform_offset ==
            ToUint32(SizeMul(pad_uniform_buffer_size(SizeofGPUSceneData, minUbo), frameIndex))
        pipelineCmds ==
            IF bindPipeline
            THEN << [op |-> "BindPipeline", pipeline |-> material.pipeline,
                     material |-> object.material],
                    [op |-> "BindDescriptorSets", firstSet |-> 0,
                     slot |-> get_current_frame(fn), dynamicOffset |-> uniform_offset],
                    [op |-> "BindDescriptorSets", firstSet |-> 1,
                     slot |-> get_current_frame(fn)] >>
                 \o (IF material.textureSet # NullHandle
                     THEN << [op |-> "BindDescriptorSets", firstSet |-> 2,
                              set |-> material.textureSet] >>
                     ELSE <<>>)
            ELSE <<>>
        pushCmd == << [op |-> "PushConstants", layout |-> material.pipelineLayout,
                       render_matrix |-> object.transformMatrix] >>
        bindMesh == NeedsVertexBind(object, st.lastMesh)
        meshCmds ==
            IF bindMesh
            THEN << [op |-> "BindVertexBuffers", mesh |-> object.mesh] >>
            ELSE <<>>
        drawCmd == << [op |-> "Draw", verticesOf |-> object.mesh, instanceCount |-> 1,
                       firstVertex |-> 0, firstInstance |-> i] >>
    IN [lastMesh |-> IF bindMesh THEN object.mesh ELSE st.lastMesh,
        lastMaterial |-> IF bindPipeline THEN object.material ELSE st.lastMaterial,
        pipelineBindCount |-> st.pipelineBindCount + (IF bindPipeline THEN 1 ELSE 0),
        vertexBuffersBindCount |-> st.vertexBuffersBindCount + (IF bindMesh THEN 1 ELSE 0),
        cmds |-> st.cmds \o pipelineCmds \o pushCmd \o meshCmds \o drawCmd]

RECURSIVE DispatchFrom(_, _, _, _, _, _)
DispatchFrom(first, count, i, st, fn, minUbo) ==
    IF i >= count THEN st
    ELSE DispatchFrom(first, count, i + 1,
                      DispatchObject(first[i + 1], i, st, fn, minUbo), fn, minUbo)

\* a slip the copy loop could have: the entries filled from the other end
WriteObjectSSBO_reversed(first, count) ==
    [i \in 1..count |-> first[count + 1 - i].transformMatrix]

\* lines 1185-1189: objectSSBO[i].modelMatrix = first[i].transformMatrix
WriteObjectSSBO(first, count) == [i \in 1..count |-> first[i].transformMatrix]

\* draw_objects(cmd, first, count) with _frameNumber = fn: what it writes into
\* the mapped buffers and what it records into cmd
draw_objects(first, count, fn, minUbo) ==
    LET frameIndex == fn % FRAME_OVERLAP
        st == DispatchFrom(first, count, 0,
                           [lastMesh |-> NullPtr, lastMaterial |-> NullPtr,
                            pipelineBindCount |-> 0, vertexBuffersBindCount |-> 0,
                            cmds |-> <<>>],
                           fn, minUbo)
    IN [cameraSlot |-> get_current_frame(fn),
        objectSlot |-> get_current_frame(fn),
        objectSSBO |-> WriteObjectSSBO(first, count),
        sceneOffset |->
            SizeMul(pad_uniform_buffer_size(SizeofGPUSceneData, minUbo), frameIndex),
        frame |-> fn,
        pipelineBindCount |-> st.pipelineBindCount,
        vertexBuffersBindCount |-> st.vertexBuffersBindCount,
        cmds |-> st.cmds,
        order |-> [i \in 1..count |-> [op |-> "WriteObjectSSBO", index |-> i - 1]]
                  \o st.cmds]

\* init_descriptors: the number of GPUObjectData entries an object buffer holds
MAX_OBJECTS == 10000

\* a slip the allocation could have: room for a single GPUObjectData
objectBufferCapacity_one_object == MAX_OBJECTS \div MAX_OBJECTS

\* entries in the buffer create_buffer(sizeof(GPUObjectData) * MAX_OBJECTS) returns
objectBufferCapacity == MAX_OBJECTS

\* init_scene: the grid loops run x and y from -20 to 20
SceneGridHalf == 20

\* the iterations of "for x from -h to h, for y from -h to h"
GridIterations(h) == {<<x, y>> : x \in (0 - h)..h, y \in (0 - h)..h}

\* the number of push_backs of init_scene with grid loops from -h to h: the
\* three named meshes, one triangle per iteration, the textured map
SceneObjectCount(h) == 3 + Cardinality(GridIterations(h)) + 1

\* the number of render objects init_scene builds with the loops of the code
CodeSceneObjectCount == SceneObjectCount(SceneGridHalf)

\* init_descriptors: the size of the scene parameter buffer, one padded block
\* of GPUSceneData per overlapping frame
sceneParamBufferSize_one_block(minUbo) ==
    pad_uniform_buffer_size(SizeofGPUSceneData, minUbo)

sceneParamBufferSize(minUbo) ==
    SizeMul(FRAME_OVERLAP, pad_uniform_buffer_size(SizeofGPUSceneData, minUbo))

NoPass == [frame |-> NoValue]

\* minUniformBufferOffsetAlignment of a Vulkan device: a power of two, at most
\* 256; the values tried are 16 (below the size padded) and 256 (above it)
DeviceAlignments == {Pow2(k) : k \in {4, 8}}

----------------------------------------------------------------------------
(* States of the parts a specification does not exercise *)

PadIdle ==
    /\ padSize = 0
    /\ padAlign = 0
    /\ padOut = NoValue
    /\ padTwice = NoValue

\* the registries in creation order, the scene not built
SceneIdle ==
    /\ matAddr = [n \in MaterialNames |->
                    CASE n = "defaultmesh" -> 1
                      [] n = "defaultmesh_duplicate" -> 2
                      [] OTHER -> 3]
    /\ meshAddr = [n \in MeshNames |->
                    CASE n = "monkey" -> 1
                      [] n = "wolf" -> 2
                      [] n = "maleHuman" -> 3
                      [] n = "triangle" -> 4
                      [] OTHER -> 5]
    /\ materials = MaterialsAfterInitPipelines
    /\ added = <<>>
    /\ renderables = <<>>
    /\ scenePc = "init_scene"

FrameIdle ==
    /\ minUboAlign = 256
    /\ frameNumber = 0
    /\ pass = NoPass

Slots == 0..(FRAME_OVERLAP - 1)

\* a GPU API call and the VkResult it returned
Call(name, err) == [call |-> name, result |-> err]
NoCall == Call("none", "VK_SUCCESS")

\* init_pipelines is not running
NoLocals == [running |-> FALSE]

\* the engine object as constructed, init() not yet called
\* an SDL_Event as far as run() looks at it: e.type and e.key.keysym.sym
Event(type, sym) == [type |-> type, sym |-> sym]
NoEvent == Event("none", "none")

EngineInit ==
    /\ pc = "init_vulkan"
    /\ ret = "none"
    /\ uploadId = "none"
    /\ idx = 0
    /\ bQuit = FALSE
    /\ renderFence = [s \in Slots |-> "null"]
    /\ uploadFence = "null"
    /\ cmdBuf = [s \in Slots |-> "null"]
    /\ gpuQueue = <<>>
    /\ currFrame = 0
    /\ tickLog = <<>>
    /\ slotHistory = <<>>
    /\ drawsDone = 0
    /\ stagingDestroyed = {}
    /\ lastCall = NoCall
    /\ uploadCmd = "null"
    /\ isLog = <<>>
    /\ pipelineLocals = NoLocals
    /\ recorded = [s \in Slots |-> <<>>]
    /\ teardown = <<>>
    /\ semLog = <<>>
    /\ camPos = <<0, 0 - 6, 0 - 10>>
    /\ useColoredTrianglePipeline = FALSE
    /\ lastEvent = NoEvent
    /\ polled = 0

----------------------------------------------------------------------------
(* The deletion queue on its own: any pushes and flushes *)

PushStep ==
    /\ Len(pushed) < MaxPush
    /\ \E function \in TeardownActions : QueuePush(function)
    /\ UNCHANGED <<padVars, sceneVars, frameVars, engineVars, runVars>>

FlushStep ==
    /\ Len(marks) < MaxFlush
    /\ QueueFlush
    /\ UNCHANGED <<padVars, sceneVars, frameVars, engineVars, runVars>>

InitDQ == DQInit /\ PadIdle /\ SceneIdle /\ FrameIdle /\ EngineInit
NextDQ == PushStep \/ FlushStep
SpecDQ == InitDQ /\ [][NextDQ]_vars

----------------------------------------------------------------------------
(* pad_uniform_buffer_size on every size and on small and power-of-two    *)
(* alignments                                                              *)

PadSizes == 0..SizeMax
PadAligns == (0..MaxAlign) \cup {Pow2(k) : k \in 0..(SizeBits - 1)}

InitPad ==
    /\ DQInit /\ SceneIdle /\ FrameIdle /\ EngineInit
    /\ padSize \in PadSizes
    /\ padAlign \in PadAligns
    /\ padOut = NoValue
    /\ padTwice = NoValue

PadCall ==
    /\ padOut = NoValue
    /\ padOut' = pad_uniform_buffer_size(padSize, padAlign)
    /\ UNCHANGED <<padSize, padAlign, padTwice, dqVars, sceneVars, frameVars, engineVars,
                   runVars>>

PadAgain ==
    /\ padOut # NoValue
    /\ padTwice = NoValue
    /\ padTwice' = pad_uniform_buffer_size(padOut, padAlign)
    /\ UNCHANGED <<padSize, padAlign, padOut, dqVars, sceneVars, frameVars, engineVars,
                   runVars>>

NextPad == PadCall \/ PadAgain
SpecPad == InitPad /\ [][NextPad]_vars

----------------------------------------------------------------------------
(* The scene: init_scene, then draw passes over it *)

\* a slip init_scene could have: the set allocated into another material
AllocateTextureSet_wrong_material(mats, allocResult) ==
    [mats EXCEPT !["defaultmesh"].textureSet =
        IF allocResult = "VK_SUCCESS" THEN "textureSet" ELSE NullHandle]

\* lines 1304-1314: texturedMat = get_material("texturedmesh"), then
\* vkAllocateDescriptorSets(..., &texturedMat->textureSet), result not checked
AllocateTextureSet(mats, allocResult) ==
    [mats EXCEPT !["texturedmesh"].textureSet =
        IF allocResult = "VK_SUCCESS" THEN "textureSet" ELSE NullHandle]

\* init_scene: the push_backs, the sampler and the texture set of the textured
\* material, then the sort
InitScene(allocResult) ==
    /\ scenePc = "init_scene"
    /\ added' = SceneAsPushed
    /\ QueuePush(<<"blockySampler", 0>>)
    /\ materials' = AllocateTextureSet(materials, allocResult)
    /\ \E tieFirst \in BOOLEAN : renderables' = std_sort(SceneAsPushed, tieFirst)
    /\ scenePc' = "ready"
    /\ UNCHANGED <<matAddr, meshAddr>>

\* the draw pass of one tick of draw(): draw_objects over _renderables, and
\* ++_frameNumber at the end of the tick
DrawPass ==
    /\ scenePc = "ready"
    /\ frameNumber < MaxFrames
    /\ pass' = draw_objects(renderables, Len(renderables), frameNumber, minUboAlign)
    /\ frameNumber' = frameNumber + 1
    /\ UNCHANGED minUboAlign

InitSceneStep ==
    /\ \E allocResult \in {"VK_SUCCESS", "VK_ERROR_OUT_OF_POOL_MEMORY"} :
         InitScene(allocResult)
    /\ UNCHANGED <<padVars, frameVars, engineVars, runVars>>
DrawPassStep ==
    DrawPass /\ UNCHANGED <<padVars, sceneVars, dqVars, engineVars, runVars>>

InitDraw ==
    /\ DQInit /\ PadIdle /\ EngineInit
    /\ matAddr \in AddrMaps(MaterialNames)
    /\ meshAddr \in AddrMaps(MeshNames)
    /\ materials = MaterialsAfterInitPipelines
    /\ added = <<>>
    /\ renderables = <<>>
    /\ scenePc = "init_scene"
    /\ minUboAlign = 256
    /\ frameNumber = 0
    /\ pass = NoPass

NextDraw == InitSceneStep \/ DrawPassStep
SpecDraw == InitDraw /\ [][NextDraw]_vars

----------------------------------------------------------------------------
(* draw_objects over any render-object sequence, sorted or not *)

BatchObjects ==
    {RenderObject(meshName, materialName, <<"obj", 0, 0>>) :
        meshName \in MeshNames, materialName \in MaterialNames}

BatchInputs == UNION {[1..n -> BatchObjects] : n \in 0..MaxObjects}

InitBatch ==
    /\ DQInit /\ PadIdle /\ FrameIdle /\ EngineInit
    /\ matAddr = [n \in MaterialNames |->
                    CASE n = "defaultmesh" -> 1
                      [] n = "defaultmesh_duplicate" -> 2
                      [] OTHER -> 3]
    /\ meshAddr = [n \in MeshNames |->
                    CASE n = "monkey" -> 1
                      [] n = "wolf" -> 2
                      [] n = "maleHuman" -> 3
                      [] n = "triangle" -> 4
                      [] OTHER -> 5]
    /\ materials = [MaterialsAfterInitPipelines
                        EXCEPT !["texturedmesh"].textureSet = "textureSet"]
    /\ added = <<>>
    /\ renderables \in BatchInputs
    /\ scenePc = "ready"

NextBatch == DrawPassStep
SpecBatch == InitBatch /\ [][NextBatch]_vars

----------------------------------------------------------------------------
(* The engine: init(), run() with its draw() ticks, cleanup(), and the GPU *)

\* VK_CHECK(x) continuing at next: abort() on any result other than VK_SUCCESS (0)
VK_CHECK(err, next) == IF err # "VK_SUCCESS" THEN "aborted" ELSE next

\* what a Vulkan call may return
CallResults == {"VK_SUCCESS", "VK_ERROR_DEVICE_LOST"}
AcquireResults == {"VK_SUCCESS", "VK_TIMEOUT", "VK_SUBOPTIMAL_KHR", "VK_ERROR_DEVICE_LOST"}

\* vkWaitForFences with a timeout: VK_SUCCESS needs the fence signaled, and an
\* unsignaled fence ends the wait with VK_TIMEOUT
WaitForFencesResults(fence) ==
    IF fence = "signaled"
    THEN {"VK_SUCCESS", "VK_ERROR_DEVICE_LOST"}
    ELSE {"VK_TIMEOUT", "VK_ERROR_DEVICE_LOST"}

\* the program around the engine: init(), then run(), then cleanup()
main_after(call) ==
    CASE call = "init" -> "run_poll"
      [] call = "run" -> "cleanup_wait"
      [] OTHER -> "done"

RECURSIVE PushAll(_, _)
PushAll(q, functions) ==
    IF functions = <<>> THEN q
    ELSE PushAll(push_function(q, Head(functions)), Tail(functions))

\* several push_function calls in a row
QueuePushAll(functions) ==
    /\ deletors' = PushAll(deletors, functions)
    /\ pushed' = pushed \o functions
    /\ UNCHANGED <<executed, marks>>

\* the deletors a loop over the frame slots (or swapchain images) pushes
PerIndex(name, n) == [i \in 1..n |-> <<name, i - 1>>]

InFlight(s) ==
    \E i \in 1..Len(gpuQueue) : gpuQueue[i].kind = "frame" /\ gpuQueue[i].slot = s

UploadInFlight(id) ==
    \E i \in 1..Len(gpuQueue) : gpuQueue[i].kind = "upload" /\ gpuQueue[i].id = id

\* an init step whose Vulkan calls are under VK_CHECK: it aborts, or it
\* completes and pushes its deletors
CheckedInitStep(at, next, functions) ==
    /\ pc = at
    /\ \E err \in CallResults :
         /\ pc' = VK_CHECK(err, next)
         /\ lastCall' = Call(at, err)
         /\ IF err = "VK_SUCCESS" THEN QueuePushAll(functions) ELSE UNCHANGED dqVars

\* an init step with calls under VK_CHECK and a call whose result is dropped:
\* a failing checked call aborts; the dropped result changes nothing
InitStepWithDropped(at, next, functions, droppedCall) ==
    /\ pc = at
    /\ \E err \in CallResults, dropped \in CallResults :
         /\ pc' = VK_CHECK(err, next)
         /\ lastCall' = IF err # "VK_SUCCESS" THEN Call(at, err)
                         ELSE Call(droppedCall, dropped)
         /\ IF err = "VK_SUCCESS" THEN QueuePushAll(functions) ELSE UNCHANGED dqVars

\* init_vulkan: the device properties are read; vmaCreateAllocator is called
\* without a look at its result
InitVulkan ==
    /\ pc = "init_vulkan"
    /\ minUboAlign' \in DeviceAlignments
    /\ QueuePush(<<"vmaDestroyAllocator", 0>>)
    /\ \E dropped \in CallResults : lastCall' = Call("vmaCreateAllocator", dropped)
    /\ pc' = "init_swapchain"
    /\ UNCHANGED <<ret, uploadId, idx, bQuit, gpuVars, tickVars, sceneVars,
                   frameNumber, pass, uploadCmd, isLog, pipelineLocals>>

InitSwapchain ==
    /\ InitStepWithDropped("init_swapchain", "init_commands",
                           << <<"swapchain_depthImage", 0>> >>, "vmaCreateImage")
    /\ UNCHANGED <<ret, uploadId, idx, bQuit, gpuVars, tickVars, sceneVars, frameVars>>
    /\ UNCHANGED <<uploadCmd, isLog, pipelineLocals>>

InitCommands ==
    /\ CheckedInitStep("init_commands", "init_default_renderpass",
                       PerIndex("commandPool", FRAME_OVERLAP)
                           \o << <<"uploadCommandPool", 0>> >>)
    /\ cmdBuf' = IF pc' = "aborted" THEN cmdBuf ELSE [s \in Slots |-> "initial"]
    /\ uploadCmd' = IF pc' = "aborted" THEN uploadCmd ELSE "initial"
    /\ UNCHANGED <<ret, uploadId, idx, bQuit, renderFence, uploadFence, gpuQueue,
                   stagingDestroyed, tickVars, sceneVars, frameVars, isLog,
                   pipelineLocals>>

InitDefaultRenderpass ==
    /\ CheckedInitStep("init_default_renderpass", "init_framebuffers",
                       << <<"renderPass", 0>> >>)
    /\ UNCHANGED <<ret, uploadId, idx, bQuit, gpuVars, tickVars, sceneVars, frameVars>>
    /\ UNCHANGED <<uploadCmd, isLog, pipelineLocals>>

InitFramebuffers ==
    /\ CheckedInitStep("init_framebuffers", "init_sync_structures",
                       PerIndex("framebuffer_imageView", SwapchainImageCount))
    /\ UNCHANGED <<ret, uploadId, idx, bQuit, gpuVars, tickVars, sceneVars, frameVars>>
    /\ UNCHANGED <<uploadCmd, isLog, pipelineLocals>>

\* the deletors of init_sync_structures, in push order
SyncDeletors ==
    [k \in 1..(2 * FRAME_OVERLAP) |->
        IF k % 2 = 1 THEN <<"renderFence", (k - 1) \div 2>>
        ELSE <<"semaphores", (k - 1) \div 2>>]
    \o << <<"uploadFence", 0>> >>

\* the state vkCreateFence leaves a fence in
vkCreateFence(flags) ==
    IF flags = "VK_FENCE_CREATE_SIGNALED_BIT" THEN "signaled" ELSE "unsignaled"

\* a slip the creation could have: the frame fences created without the flag
fenceCreateInfo_no_flags == "0"

\* the flags of the frame fences' create info
fenceCreateInfo == "VK_FENCE_CREATE_SIGNALED_BIT"

\* the flags of the upload fence's create info
uploadFenceCreateInfo == "0"

\* frame fences are created with VK_FENCE_CREATE_SIGNALED_BIT, the upload fence
\* without
InitSyncStructures ==
    /\ CheckedInitStep("init_sync_structures", "init_descriptors", SyncDeletors)
    /\ renderFence' = IF pc' = "aborted" THEN renderFence
                      ELSE [s \in Slots |-> vkCreateFence(fenceCreateInfo)]
    /\ uploadFence' = IF pc' = "aborted" THEN uploadFence
                      ELSE vkCreateFence(uploadFenceCreateInfo)
    /\ UNCHANGED <<ret, uploadId, idx, bQuit, cmdBuf, gpuQueue, stagingDestroyed,
                   tickVars, sceneVars, frameVars>>
    /\ UNCHANGED <<uploadCmd, isLog, pipelineLocals>>

InitDescriptors ==
    /\ InitStepWithDropped("init_descriptors", "init_pipelines",
                           << <<"descriptorLayouts_pool", 0>>,
                              <<"sceneParameterBuffer", 0>> >>
                               \o PerIndex("cameraBuffer_objectBuffer", FRAME_OVERLAP),
                           "vkAllocateDescriptorSets")
    /\ UNCHANGED <<ret, uploadId, idx, bQuit, gpuVars, tickVars, sceneVars, frameVars>>
    /\ UNCHANGED <<uploadCmd, isLog, pipelineLocals>>

\* the shader files init_pipelines loads, and the pipelines it builds
ShaderFiles ==
    {"triangle.frag", "triangle.vert", "colored_triangle.frag", "colored_triangle.vert",
     "triangle_mesh.vert", "default_lit.frag", "textured_lit.frag"}
PipelineNames == {"_trianglePipeline", "_coloredTrianglePipeline", "_meshPipeline",
                  "texPipeline"}

\* the shader modules pushed into _shaderStages before each build_pipeline
ShaderStages(pipeline) ==
    CASE pipeline = "_trianglePipeline" -> {"triangle.vert", "triangle.frag"}
      [] pipeline = "_coloredTrianglePipeline" ->
            {"colored_triangle.vert", "colored_triangle.frag"}
      [] pipeline = "_meshPipeline" -> {"triangle_mesh.vert", "default_lit.frag"}
      [] OTHER -> {"triangle_mesh.vert", "textured_lit.frag"}

\* the loadShader calls of init_pipelines, in order
ShaderLoadOrder ==
    <<"triangle.frag", "triangle.vert", "colored_triangle.frag", "colored_triangle.vert",
      "triangle_mesh.vert", "default_lit.frag", "textured_lit.frag">>

\* the handles a VkShaderModule local that was never written may hold: null,
\* or a value that is no handle of anything
IndeterminateHandles == {NullHandle, "indeterminate"}

\* or what an earlier call of the lambda left in the same place: the handle of
\* a module loaded before
StaleHandles(file, failedLoads) ==
    {ShaderLoadOrder[k] : k \in {j \in 1..Len(ShaderLoadOrder) :
        /\ ShaderLoadOrder[j] \notin failedLoads
        /\ \E m \in (j + 1)..Len(ShaderLoadOrder) : ShaderLoadOrder[m] = file}}

\* the loadShader lambda: load_shader_module writes *outShaderModule only when
\* it returns true; the lambda returns its local either way
loadShader(file, loaded, uninitialized) == IF loaded THEN file ELSE uninitialized

\* build_pipeline: the new pipeline, or VK_NULL_HANDLE when
\* vkCreateGraphicsPipelines fails
build_pipeline(name, created) == IF created THEN name ELSE NullHandle

\* what init_pipelines prints
PipelinesLog(failedLoads, created) ==
    {<<"Error loading", f>> : f \in failedLoads}
    \cup {<<"shader successfully loaded", f>> : f \in ShaderFiles \ failedLoads}
    \cup {<<"failed to create pipeline", p>> : p \in {q \in PipelineNames : ~created[q]}}

\* init_pipelines up to the last create_material: shader loads and pipeline
\* builds may fail without ending the process, the three
\* vkCreatePipelineLayout calls are under VK_CHECK
InitPipelines ==
    /\ pc = "init_pipelines"
    /\ \E err \in CallResults,
          failedLoads \in {F \in SUBSET ShaderFiles : Cardinality(F) <= MaxShaderFailures},
          created \in [PipelineNames -> BOOLEAN] :
         \E uninitialized \in [failedLoads -> IndeterminateHandles \cup ShaderFiles] :
            /\ \A f \in failedLoads :
                  uninitialized[f] \in IndeterminateHandles \cup StaleHandles(f, failedLoads)
            /\ pc' = VK_CHECK(err, "init_pipelines_end")
            /\ lastCall' = Call("vkCreatePipelineLayout", err)
            /\ IF err = "VK_SUCCESS"
               THEN /\ materials' =
                          create_materials(build_pipeline("_meshPipeline",
                                                          created["_meshPipeline"]),
                                           build_pipeline("texPipeline",
                                                          created["texPipeline"]))
                    /\ pipelineLocals' =
                          [running |-> TRUE,
                           failedLoads |-> failedLoads,
                           shaders |-> [f \in ShaderFiles |->
                                           loadShader(f, f \notin failedLoads,
                                                      IF f \in failedLoads
                                                      THEN uninitialized[f]
                                                      ELSE NullHandle)],
                           stages |-> [p \in PipelineNames |-> ShaderStages(p)],
                           created |-> created,
                           pipelines |-> [p \in PipelineNames |->
                                             build_pipeline(p, created[p])],
                           destroyed |-> {},
                           log |-> PipelinesLog(failedLoads, created)]
               ELSE UNCHANGED <<materials, pipelineLocals>>
    /\ UNCHANGED <<ret, uploadId, idx, bQuit, gpuVars, tickVars, matAddr, meshAddr,
                   added, renderables, scenePc, frameVars, dqVars, uploadCmd, isLog>>

\* the end of init_pipelines: every shader module local is passed to
\* vkDestroyShaderModule, the deletor of the pipelines and layouts is pushed
InitPipelinesDestroyShaders ==
    /\ pc = "init_pipelines_end"
    /\ ~pipelineLocals.destroyed = ShaderFiles
    /\ pipelineLocals' = [pipelineLocals EXCEPT !.destroyed = ShaderFiles]
    /\ UNCHANGED <<cpuVars, gpuVars, tickVars, sceneVars, frameVars, dqVars, lastCall,
                   uploadCmd, isLog>>

InitPipelinesEnd ==
    /\ pc = "init_pipelines_end"
    /\ pipelineLocals.destroyed = ShaderFiles
    /\ QueuePush(<<"pipelines_layouts", 0>>)
    /\ pipelineLocals' = NoLocals
    /\ pc' = "init_imgui"
    /\ UNCHANGED <<ret, uploadId, idx, bQuit, gpuVars, tickVars, sceneVars, frameVars,
                   lastCall, uploadCmd, isLog>>

\* the checked call name before it gave err; then immediate_submit(function)
\* is called, to return to next
CallImmediateSubmit(name, err, id, next) ==
    /\ uploadId' = id
    /\ ret' = next
    /\ pc' = VK_CHECK(err, "is_begin")
    /\ isLog' = <<>>
    /\ lastCall' = Call(name, err)
    /\ UNCHANGED <<uploadCmd, pipelineLocals>>

\* init_imgui up to its immediate_submit of the font upload
InitImgui ==
    /\ pc = "init_imgui"
    /\ \E err \in CallResults :
         CallImmediateSubmit("vkCreateDescriptorPool", err, "fonts", "init_imgui_push")
    /\ UNCHANGED <<idx, bQuit, gpuVars, tickVars, sceneVars, frameVars, dqVars>>

InitImguiPush ==
    /\ pc = "init_imgui_push"
    /\ QueuePush(<<"imgui", 0>>)
    /\ pc' = "load_images"
    /\ UNCHANGED <<ret, uploadId, idx, bQuit, gpuVars, tickVars, sceneVars, frameVars>>
    /\ UNCHANGED callVars

\* vkutil::load_image_from_file: the texture goes to the GPU by immediate_submit
LoadImageFromFile ==
    /\ pc = "load_images"
    /\ CallImmediateSubmit("none", "VK_SUCCESS", "texture", "load_images_push")
    /\ UNCHANGED <<idx, bQuit, gpuVars, tickVars, sceneVars, frameVars, dqVars>>

\* the teardown load_image_from_file registers for the image it creates
LoadImageFromFileDeletors == << <<"lostEmpire_image", 0>> >>

\* load_images after load_image_from_file: the image view and its deletor
LoadImagesPush ==
    /\ pc = "load_images_push"
    /\ QueuePushAll(LoadImageFromFileDeletors \o << <<"lostEmpire_imageView", 0>> >>)
    /\ \E dropped \in CallResults : lastCall' = Call("vkCreateImageView", dropped)
    /\ pc' = "upload_mesh"
    /\ idx' = 1
    /\ UNCHANGED <<ret, uploadId, bQuit, gpuVars, tickVars, sceneVars, frameVars,
                   uploadCmd, isLog, pipelineLocals>>

\* the meshes load_meshes uploads, in order
MeshUploadOrder == <<"triangle", "monkey", "wolf", "maleHuman", "empire">>

\* upload_mesh up to its immediate_submit: staging and vertex buffers are
\* created under VK_CHECK, then the copy is submitted
UploadMesh ==
    /\ pc = "upload_mesh"
    /\ \E err \in CallResults :
         CallImmediateSubmit("vmaCreateBuffer", err, MeshUploadOrder[idx],
                             "upload_mesh_push")
    /\ UNCHANGED <<idx, bQuit, gpuVars, tickVars, sceneVars, frameVars, dqVars>>

\* upload_mesh after immediate_submit returned: the vertex buffer's deletor
UploadMeshPush ==
    /\ pc = "upload_mesh_push"
    /\ QueuePush(<<"vertexBuffer", idx>>)
    /\ pc' = "upload_mesh_destroy_staging"
    /\ UNCHANGED <<ret, uploadId, idx, bQuit, gpuVars, tickVars, sceneVars, frameVars>>
    /\ UNCHANGED callVars

\* upload_mesh: "immediately delete staging buffer"; load_meshes goes on
UploadMeshDestroyStaging ==
    /\ pc = "upload_mesh_destroy_staging"
    /\ stagingDestroyed' = stagingDestroyed \cup {MeshUploadOrder[idx]}
    /\ IF idx < Len(MeshUploadOrder)
       THEN idx' = idx + 1 /\ pc' = "upload_mesh"
       ELSE idx' = 0 /\ pc' = "init_scene"
    /\ UNCHANGED <<ret, uploadId, bQuit, renderFence, uploadFence, cmdBuf, gpuQueue,
                   tickVars, sceneVars, frameVars, dqVars>>
    /\ UNCHANGED callVars

\* init_scene as the last step of init()
InitSceneOfInit ==
    /\ pc = "init_scene"
    /\ \E allocResult \in {"VK_SUCCESS", "VK_ERROR_OUT_OF_POOL_MEMORY"} :
         /\ InitScene(allocResult)
         /\ lastCall' = Call("vkAllocateDescriptorSets", allocResult)
    /\ pc' = main_after("init")
    /\ UNCHANGED <<ret, uploadId, idx, bQuit, gpuVars, tickVars, frameVars, uploadCmd,
                   isLog, pipelineLocals>>

----------------------------------------------------------------------------
(* immediate_submit *)

ImmediateSubmitPcs ==
    {"is_begin", "is_function", "is_end", "is_submit", "is_wait", "is_reset_fence",
     "is_reset_pool"}

\* VK_CHECK(vkBeginCommandBuffer(cmd, &cmdBeginInfo))
ImmediateBegin ==
    /\ pc = "is_begin"
    /\ \E err \in CallResults :
         /\ pc' = VK_CHECK(err, "is_function")
         /\ uploadCmd' = IF err = "VK_SUCCESS" THEN "recording" ELSE uploadCmd
         /\ lastCall' = Call("vkBeginCommandBuffer", err)
    /\ isLog' = Append(isLog, [op |-> "BeginCommandBuffer", cmd |-> "upload"])
    /\ UNCHANGED <<ret, uploadId, idx, bQuit, gpuVars, tickVars, sceneVars, frameVars,
                   dqVars, pipelineLocals>>

\* function(cmd)
ImmediateFunction ==
    /\ pc = "is_function"
    /\ pc' = "is_end"
    /\ isLog' = Append(isLog, [op |-> "function", id |-> uploadId])
    /\ UNCHANGED <<ret, uploadId, idx, bQuit, gpuVars, tickVars, sceneVars, frameVars,
                   dqVars, lastCall, uploadCmd, pipelineLocals>>

\* VK_CHECK(vkEndCommandBuffer(cmd))
ImmediateEnd ==
    /\ pc = "is_end"
    /\ \E err \in CallResults :
         /\ pc' = VK_CHECK(err, "is_submit")
         /\ uploadCmd' = IF err = "VK_SUCCESS" THEN "executable" ELSE uploadCmd
         /\ lastCall' = Call("vkEndCommandBuffer", err)
    /\ isLog' = Append(isLog, [op |-> "EndCommandBuffer", cmd |-> "upload"])
    /\ UNCHANGED <<ret, uploadId, idx, bQuit, gpuVars, tickVars, sceneVars, frameVars,
                   dqVars, pipelineLocals>>

\* VK_CHECK(vkQueueSubmit(_graphicsQueue, 1, &submit, _uploadFence))
ImmediateSubmit ==
    /\ pc = "is_submit"
    /\ \E err \in CallResults :
         /\ pc' = VK_CHECK(err, "is_wait")
         /\ gpuQueue' = IF err = "VK_SUCCESS"
                        THEN Append(gpuQueue, [kind |-> "upload", id |-> uploadId])
                        ELSE gpuQueue
         /\ uploadCmd' = IF err = "VK_SUCCESS" THEN "pending" ELSE uploadCmd
         /\ lastCall' = Call("vkQueueSubmit", err)
    /\ isLog' = Append(isLog, [op |-> "QueueSubmit", cmd |-> "upload",
                               fence |-> "uploadFence"])
    /\ UNCHANGED <<ret, uploadId, idx, bQuit, renderFence, uploadFence, cmdBuf,
                   stagingDestroyed, tickVars, sceneVars, frameVars, dqVars,
                   pipelineLocals>>

\* vkWaitForFences(_device, 1, &_uploadFence, true, 9999999999): the result is
\* not looked at
ImmediateWait ==
    /\ pc = "is_wait"
    /\ \E err \in WaitForFencesResults(uploadFence) :
         lastCall' = Call("vkWaitForFences", err)
    /\ pc' = "is_reset_fence"
    /\ isLog' = Append(isLog, [op |-> "WaitForFences", fence |-> "uploadFence"])
    /\ UNCHANGED <<ret, uploadId, idx, bQuit, gpuVars, tickVars, sceneVars, frameVars,
                   dqVars, uploadCmd, pipelineLocals>>

\* vkResetFences(_device, 1, &_uploadFence): the result is not looked at
ImmediateResetFence ==
    /\ pc = "is_reset_fence"
    /\ \E err \in CallResults :
         /\ uploadFence' = IF err = "VK_SUCCESS" THEN "unsignaled" ELSE uploadFence
         /\ lastCall' = Call("vkResetFences", err)
    /\ pc' = "is_reset_pool"
    /\ isLog' = Append(isLog, [op |-> "ResetFences", fence |-> "uploadFence"])
    /\ UNCHANGED <<ret, uploadId, idx, bQuit, renderFence, cmdBuf, gpuQueue,
                   stagingDestroyed, tickVars, sceneVars, frameVars, dqVars,
                   uploadCmd, pipelineLocals>>

\* vkResetCommandPool(_device, _uploadContext._commandPool, 0), its result not
\* looked at, then the return to the caller
ImmediateResetPool ==
    /\ pc = "is_reset_pool"
    /\ \E err \in CallResults :
         /\ uploadCmd' = IF err = "VK_SUCCESS" THEN "initial" ELSE uploadCmd
         /\ lastCall' = Call("vkResetCommandPool", err)
    /\ pc' = ret
    /\ isLog' = Append(isLog, [op |-> "ResetCommandPool", pool |-> "upload"])
    /\ UNCHANGED <<ret, uploadId, idx, bQuit, gpuVars, tickVars, sceneVars, frameVars,
                   dqVars, pipelineLocals>>

----------------------------------------------------------------------------
(* run() and draw() *)

Vec3Add(u, v) == <<u[1] + v[1], u[2] + v[2], u[3] + v[3]>>

\* a slip the switch could have: case SDLK_s without its break, falling into
\* case SDLK_d
CameraKeyDown_missing_break(sym, pos) ==
    CASE sym = "SDLK_w" -> Vec3Add(pos, <<0, 0, 1>>)
      [] sym = "SDLK_a" -> Vec3Add(pos, <<1, 0, 0>>)
      [] sym = "SDLK_s" -> Vec3Add(Vec3Add(pos, <<0, 0, 0 - 1>>), <<0 - 1, 0, 0>>)
      [] sym = "SDLK_d" -> Vec3Add(pos, <<0 - 1, 0, 0>>)
      [] OTHER -> pos

\* the cases SDLK_w, SDLK_a, SDLK_s, SDLK_d and default of the switch
CameraKeyDown(sym, pos) ==
    CASE sym = "SDLK_w" -> Vec3Add(pos, <<0, 0, 1>>)
      [] sym = "SDLK_a" -> Vec3Add(pos, <<1, 0, 0>>)
      [] sym = "SDLK_s" -> Vec3Add(pos, <<0, 0, 0 - 1>>)
      [] sym = "SDLK_d" -> Vec3Add(pos, <<0 - 1, 0, 0>>)
      [] OTHER -> pos

\* the body of the while (SDL_PollEvent(&e) != 0) loop for one event, on
\* st = [bQuit, camPos, useColoredTrianglePipeline]
ProcessEvent(e, st) ==
    IF e.type = "SDL_QUIT" THEN [st EXCEPT !.bQuit = TRUE]
    ELSE IF e.type = "SDL_KEYDOWN" /\ e.sym = "SDLK_ESCAPE" THEN [st EXCEPT !.bQuit = TRUE]
    ELSE IF e.type = "SDL_KEYDOWN" /\ e.sym = "SDLK_SPACE"
         THEN [st EXCEPT !.useColoredTrianglePipeline = ~st.useColoredTrianglePipeline]
    ELSE IF e.type = "SDL_KEYDOWN"
         THEN CASE e.sym = "SDLK_ESCAPE" -> [st EXCEPT !.bQuit = TRUE]
                [] e.sym = "SDLK_SPACE" ->
                     [st EXCEPT !.useColoredTrianglePipeline = ~st.useColoredTrianglePipeline]
                [] OTHER -> [st EXCEPT !.camPos = CameraKeyDown(e.sym, st.camPos)]
    ELSE st

\* the whole while (SDL_PollEvent(&e) != 0) loop over the queued events
RECURSIVE PollEvents(_, _)
PollEvents(events, st) ==
    IF events = <<>> THEN st
    ELSE PollEvents(Tail(events), ProcessEvent(Head(events), st))

\* the events a window can deliver, as far as run() tells them apart
Events ==
    {Event("SDL_QUIT", "none"), Event("SDL_MOUSEMOTION", "none"), Event("SDL_KEYUP", "SDLK_w")}
    \cup {Event("SDL_KEYDOWN", sym) :
            sym \in {"SDLK_ESCAPE", "SDLK_SPACE", "SDLK_w", "SDLK_a", "SDLK_s", "SDLK_d",
                     "SDLK_q"}}

\* the event queues the engine as a whole is run on: nothing, or a quit
EngineEventQueues == {<<>>, <<Event("SDL_QUIT", "none")>>}

\* one pass of the loop of run(): the events are polled (a quit sets bQuit),
\* the UI frame is built, and draw() is called whatever the events were
RunPoll ==
    /\ pc = "run_poll"
    /\ \E events \in EngineEventQueues :
         LET st == PollEvents(events, [bQuit |-> bQuit, camPos |-> camPos,
                                       useColoredTrianglePipeline |->
                                           useColoredTrianglePipeline])
         IN /\ frameNumber + 1 < MaxFrames \/ st.bQuit
            /\ bQuit' = st.bQuit
            /\ camPos' = st.camPos
            /\ useColoredTrianglePipeline' = st.useColoredTrianglePipeline
    /\ UNCHANGED <<lastEvent, polled>>
    /\ pc' = "draw"
    /\ UNCHANGED <<ret, uploadId, idx, gpuVars, tickVars, sceneVars, frameVars, dqVars>>
    /\ UNCHANGED callVars

\* a slip the order could have: the fence reset moved behind the submit
draw_next_reset_after_submit(at) ==
    CASE at = "draw" -> "draw_wait"
      [] at = "draw_wait" -> "draw_acquire"
      [] at = "draw_acquire" -> "draw_reset_cmd"
      [] at = "draw_reset_cmd" -> "draw_begin"
      [] at = "draw_begin" -> "draw_record"
      [] at = "draw_record" -> "draw_end"
      [] at = "draw_end" -> "draw_submit"
      [] at = "draw_submit" -> "draw_reset_fence"
      [] at = "draw_reset_fence" -> "draw_present"
      [] at = "draw_present" -> "draw_increment"
      [] OTHER -> "draw_return"

\* a slip the order could have: ++_frameNumber before the batch is recorded
draw_next_increment_early(at) ==
    CASE at = "draw" -> "draw_wait"
      [] at = "draw_wait" -> "draw_reset_fence"
      [] at = "draw_reset_fence" -> "draw_acquire"
      [] at = "draw_acquire" -> "draw_reset_cmd"
      [] at = "draw_reset_cmd" -> "draw_begin"
      [] at = "draw_begin" -> "draw_increment"
      [] at = "draw_increment" -> "draw_record"
      [] at = "draw_record" -> "draw_end"
      [] at = "draw_end" -> "draw_submit"
      [] at = "draw_submit" -> "draw_present"
      [] OTHER -> "draw_return"

\* the statement of draw() that follows the statement at
draw_next(at) ==
    CASE at = "draw" -> "draw_wait"
      [] at = "draw_wait" -> "draw_reset_fence"
      [] at = "draw_reset_fence" -> "draw_acquire"
      [] at = "draw_acquire" -> "draw_reset_cmd"
      [] at = "draw_reset_cmd" -> "draw_begin"
      [] at = "draw_begin" -> "draw_record"
      [] at = "draw_record" -> "draw_end"
      [] at = "draw_end" -> "draw_submit"
      [] at = "draw_submit" -> "draw_present"
      [] at = "draw_present" -> "draw_increment"
      [] OTHER -> "draw_return"

\* ImGui::Render(); const auto& currFrame = get_current_frame();
DrawEnter ==
    /\ pc = "draw"
    /\ currFrame' = get_current_frame(frameNumber)
    /\ tickLog' = <<>>
    /\ slotHistory' = Append(slotHistory, get_current_frame(frameNumber))
    /\ pc' = draw_next("draw")
    /\ UNCHANGED <<ret, uploadId, idx, bQuit, gpuVars, drawsDone, sceneVars, frameVars,
                   dqVars>>
    /\ UNCHANGED callVars

\* a slip the wait could have: its result dropped, as in cleanup()
draw_wait_result_unchecked(err, next) == next

\* where draw() goes after its fence wait returned err: the wait is under VK_CHECK
draw_wait_result(err, next) == VK_CHECK(err, next)

\* VK_CHECK(vkWaitForFences(_device, 1, &currFrame.renderFence, true, 1000000000))
DrawWaitFence ==
    /\ pc = "draw_wait"
    /\ \E err \in WaitForFencesResults(renderFence[currFrame]) :
         /\ pc' = draw_wait_result(err, draw_next("draw_wait"))
         /\ lastCall' = Call("vkWaitForFences", err)
    /\ tickLog' = Append(tickLog, [op |-> "WaitForFences", fence |-> currFrame])
    /\ UNCHANGED <<ret, uploadId, idx, bQuit, gpuVars, currFrame, slotHistory, drawsDone,
                   sceneVars, frameVars, dqVars>>
    /\ UNCHANGED <<uploadCmd, isLog, pipelineLocals>>

\* VK_CHECK(vkResetFences(_device, 1, &currFrame.renderFence))
DrawResetFence ==
    /\ pc = "draw_reset_fence"
    /\ \E err \in CallResults :
         /\ lastCall' = Call("vkResetFences", err)
         /\ pc' = VK_CHECK(err, draw_next("draw_reset_fence"))
         /\ renderFence' = IF err = "VK_SUCCESS"
                           THEN [renderFence EXCEPT ![currFrame] = "unsignaled"]
                           ELSE renderFence
    /\ tickLog' = Append(tickLog, [op |-> "ResetFences", fence |-> currFrame])
    /\ UNCHANGED <<ret, uploadId, idx, bQuit, uploadFence, cmdBuf, gpuQueue,
                   stagingDestroyed, currFrame, slotHistory, drawsDone, sceneVars,
                   frameVars, dqVars>>
    /\ UNCHANGED <<uploadCmd, isLog, pipelineLocals>>

\* a semaphore signal or wait operation of frame f, and the call that makes it
SemaphoreOp(kind, name, s, f, call, stageMask) ==
    [op |-> kind, semaphore |-> <<name, s>>, frame |-> f, by |-> call, stage |-> stageMask]

\* vkAcquireNextImageKHR(..., currFrame.presentSemaphore, nullptr, ...): the
\* semaphore is signaled when the image is available
AcquireSemaphoreOps(s, f) ==
    << SemaphoreOp("signal", "presentSemaphore", s, f, "vkAcquireNextImageKHR", "none") >>

\* the submit info: wait for presentSemaphore at the color attachment output
\* stage, signal renderSemaphore
SubmitSemaphoreOps(s, f) ==
    << SemaphoreOp("wait", "presentSemaphore", s, f, "vkQueueSubmit",
                   "VK_PIPELINE_STAGE_COLOR_ATTACHMENT_OUTPUT_BIT"),
       SemaphoreOp("signal", "renderSemaphore", s, f, "vkQueueSubmit", "none") >>

\* a slip the present info could have: the image-available semaphore waited for
PresentSemaphoreOps_wait_for_acquire(s, f) ==
    << SemaphoreOp("wait", "presentSemaphore", s, f, "vkQueuePresentKHR", "none") >>

\* present_info(_swapchain, currFrame.renderSemaphore, ...): wait for renderSemaphore
PresentSemaphoreOps(s, f) ==
    << SemaphoreOp("wait", "renderSemaphore", s, f, "vkQueuePresentKHR", "none") >>

\* VK_CHECK(vkAcquireNextImageKHR(..., currFrame.presentSemaphore, nullptr, ...))
DrawAcquire ==
    /\ pc = "draw_acquire"
    /\ \E err \in AcquireResults :
         /\ pc' = VK_CHECK(err, draw_next("draw_acquire"))
         /\ lastCall' = Call("vkAcquireNextImageKHR", err)
         /\ semLog' = IF err \in {"VK_SUCCESS", "VK_SUBOPTIMAL_KHR"}
                      THEN semLog \o AcquireSemaphoreOps(currFrame, frameNumber)
                      ELSE semLog
    /\ tickLog' = Append(tickLog, [op |-> "AcquireNextImage",
                                   signalSemaphore |-> <<"presentSemaphore", currFrame>>])
    /\ UNCHANGED <<ret, uploadId, idx, bQuit, gpuVars, currFrame, slotHistory, drawsDone,
                   sceneVars, frameVars, dqVars>>
    /\ UNCHANGED <<uploadCmd, isLog, pipelineLocals>>

\* VK_CHECK(vkResetCommandBuffer(currFrame.mainCommandBuffer, 0))
DrawResetCommandBuffer ==
    /\ pc = "draw_reset_cmd"
    /\ \E err \in CallResults :
         /\ lastCall' = Call("vkResetCommandBuffer", err)
         /\ pc' = VK_CHECK(err, draw_next("draw_reset_cmd"))
         /\ cmdBuf' = IF err = "VK_SUCCESS"
                      THEN [cmdBuf EXCEPT ![currFrame] = "initial"]
                      ELSE cmdBuf
         /\ recorded' = IF err = "VK_SUCCESS"
                        THEN [recorded EXCEPT ![currFrame] = <<>>]
                        ELSE recorded
    /\ tickLog' = Append(tickLog, [op |-> "ResetCommandBuffer", cmd |-> currFrame])
    /\ UNCHANGED <<ret, uploadId, idx, bQuit, renderFence, uploadFence, gpuQueue,
                   stagingDestroyed, currFrame, slotHistory, drawsDone, sceneVars,
                   frameVars, dqVars>>
    /\ UNCHANGED <<uploadCmd, isLog, pipelineLocals>>

\* VK_CHECK(vkBeginCommandBuffer(cmd, &cmdBeginInfo))
DrawBeginCommandBuffer ==
    /\ pc = "draw_begin"
    /\ \E err \in CallResults :
         /\ lastCall' = Call("vkBeginCommandBuffer", err)
         /\ pc' = VK_CHECK(err, draw_next("draw_begin"))
         /\ cmdBuf' = IF err = "VK_SUCCESS"
                      THEN [cmdBuf EXCEPT ![currFrame] = "recording"]
                      ELSE cmdBuf
    /\ tickLog' = Append(tickLog, [op |-> "BeginCommandBuffer", cmd |-> currFrame])
    /\ UNCHANGED <<ret, uploadId, idx, bQuit, renderFence, uploadFence, gpuQueue,
                   stagingDestroyed, currFrame, slotHistory, drawsDone, sceneVars,
                   frameVars, dqVars>>
    /\ UNCHANGED <<uploadCmd, isLog, pipelineLocals>>

\* a slip the recording could have: the UI draw data recorded after the
\* render pass has been ended
RenderPassCommands_ui_after_pass(batch) ==
    <<[op |-> "BeginRenderPass"]>> \o batch
        \o <<[op |-> "EndRenderPass"], [op |-> "ImGuiRenderDrawData"]>>

\* what lines 204-214 record into cmd: vkCmdBeginRenderPass, the commands of
\* draw_objects, ImGui_ImplVulkan_RenderDrawData, vkCmdEndRenderPass
RenderPassCommands(batch) ==
    <<[op |-> "BeginRenderPass"]>> \o batch
        \o <<[op |-> "ImGuiRenderDrawData"], [op |-> "EndRenderPass"]>>

\* vkCmdBeginRenderPass, draw_objects(cmd, _renderables.data(), _renderables.size()),
\* the UI draw data, vkCmdEndRenderPass
DrawRecord ==
    /\ pc = "draw_record"
    /\ pass' = draw_objects(renderables, Len(renderables), frameNumber, minUboAlign)
    /\ recorded' = [recorded EXCEPT ![currFrame] = @ \o RenderPassCommands(pass'.cmds)]
    /\ tickLog' = Append(tickLog, [op |-> "Record", cmd |-> currFrame])
    /\ pc' = draw_next("draw_record")
    /\ UNCHANGED <<ret, uploadId, idx, bQuit, gpuVars, currFrame, slotHistory, drawsDone,
                   sceneVars, minUboAlign, frameNumber, dqVars>>
    /\ UNCHANGED callVars

\* VK_CHECK(vkEndCommandBuffer(cmd))
DrawEndCommandBuffer ==
    /\ pc = "draw_end"
    /\ \E err \in CallResults :
         /\ lastCall' = Call("vkEndCommandBuffer", err)
         /\ pc' = VK_CHECK(err, draw_next("draw_end"))
         /\ cmdBuf' = IF err = "VK_SUCCESS"
                      THEN [cmdBuf EXCEPT ![currFrame] = "executable"]
                      ELSE cmdBuf
    /\ tickLog' = Append(tickLog, [op |-> "EndCommandBuffer", cmd |-> currFrame])
    /\ UNCHANGED <<ret, uploadId, idx, bQuit, renderFence, uploadFence, gpuQueue,
                   stagingDestroyed, currFrame, slotHistory, drawsDone, sceneVars,
                   frameVars, dqVars>>
    /\ UNCHANGED <<uploadCmd, isLog, pipelineLocals>>

\* VK_CHECK(vkQueueSubmit(_graphicsQueue, 1, &submit, currFrame.renderFence))
DrawSubmit ==
    /\ pc = "draw_submit"
    /\ \E err \in CallResults :
         /\ lastCall' = Call("vkQueueSubmit", err)
         /\ pc' = VK_CHECK(err, draw_next("draw_submit"))
         /\ semLog' = IF err = "VK_SUCCESS"
                      THEN semLog \o SubmitSemaphoreOps(currFrame, frameNumber)
                      ELSE semLog
         /\ gpuQueue' = IF err = "VK_SUCCESS"
                        THEN Append(gpuQueue, [kind |-> "frame", slot |-> currFrame,
                                               frame |-> frameNumber])
                        ELSE gpuQueue
         /\ cmdBuf' = IF err = "VK_SUCCESS"
                      THEN [cmdBuf EXCEPT ![currFrame] = "pending"]
                      ELSE cmdBuf
    /\ tickLog' = Append(tickLog,
                         [op |-> "QueueSubmit", cmd |-> currFrame,
                          waitSemaphore |-> <<"presentSemaphore", currFrame>>,
                          signalSemaphore |-> <<"renderSemaphore", currFrame>>,
                          fence |-> currFrame])
    /\ UNCHANGED <<ret, uploadId, idx, bQuit, renderFence, uploadFence, stagingDestroyed,
                   currFrame, slotHistory, drawsDone, sceneVars, frameVars, dqVars>>
    /\ UNCHANGED <<uploadCmd, isLog, pipelineLocals>>

\* VK_CHECK(vkQueuePresentKHR(_graphicsQueue, &presentInfo))
DrawPresent ==
    /\ pc = "draw_present"
    /\ \E err \in CallResults :
         /\ pc' = VK_CHECK(err, draw_next("draw_present"))
         /\ lastCall' = Call("vkQueuePresentKHR", err)
         /\ semLog' = IF err = "VK_SUCCESS"
                      THEN semLog \o PresentSemaphoreOps(currFrame, frameNumber)
                      ELSE semLog
    /\ tickLog' = Append(tickLog, [op |-> "QueuePresent",
                                   waitSemaphore |-> <<"renderSemaphore", currFrame>>])
    /\ UNCHANGED <<ret, uploadId, idx, bQuit, gpuVars, currFrame, slotHistory, drawsDone,
                   sceneVars, frameVars, dqVars>>
    /\ UNCHANGED <<uploadCmd, isLog, pipelineLocals>>

\* ++_frameNumber
DrawIncrement ==
    /\ pc = "draw_increment"
    /\ frameNumber' = frameNumber + 1
    /\ tickLog' = Append(tickLog, [op |-> "IncrementFrameNumber"])
    /\ pc' = draw_next("draw_increment")
    /\ UNCHANGED <<ret, uploadId, idx, bQuit, gpuVars, currFrame, slotHistory, drawsDone,
                   sceneVars, minUboAlign, pass, dqVars>>
    /\ UNCHANGED callVars

\* draw() returns into the loop of run(), which ends when bQuit is set
DrawReturn ==
    /\ pc = "draw_return"
    /\ drawsDone' = drawsDone + 1
    /\ pc' = IF bQuit THEN main_after("run") ELSE "run_poll"
    /\ UNCHANGED <<ret, uploadId, idx, bQuit, gpuVars, currFrame, tickLog, slotHistory,
                   sceneVars, frameVars, dqVars>>
    /\ UNCHANGED callVars

----------------------------------------------------------------------------
(* cleanup() *)

\* vkWaitForFences(_device, 1, &_frames[frameIdx].renderFence, true, 1000000000)
\* for each frameIdx: the result is not looked at
CleanupWait ==
    /\ pc = "cleanup_wait"
    /\ \E err \in WaitForFencesResults(renderFence[idx]) :
         lastCall' = Call("vkWaitForFences", err)
    /\ pc' = IF idx + 1 < FRAME_OVERLAP THEN "cleanup_wait" ELSE "cleanup_flush"
    /\ idx' = idx + 1
    /\ UNCHANGED <<ret, uploadId, bQuit, gpuVars, tickVars, sceneVars, frameVars, dqVars>>
    /\ UNCHANGED <<uploadCmd, isLog, pipelineLocals, teardown>>

\* the destroy calls in the body of each lambda given to push_function, in
\* order; function = <<lambda, index it captured>>
DeletorCalls(function) ==
    LET i == function[2]
    IN CASE function[1] = "vmaDestroyAllocator" -> << <<"_allocator", 0>> >>
         [] function[1] = "swapchain_depthImage" ->
              << <<"_swapchain", 0>>, <<"_depthImageView", 0>>, <<"_depthImage", 0>> >>
         [] function[1] = "framebuffer_imageView" ->
              << <<"_framebuffers", i>>, <<"_swapchainImageViews", i>> >>
         [] function[1] = "semaphores" ->
              << <<"presentSemaphore", i>>, <<"renderSemaphore", i>> >>
         [] function[1] = "pipelines_layouts" ->
              << <<"_coloredTrianglePipeline", 0>>, <<"_trianglePipeline", 0>>,
                 <<"_meshPipeline", 0>>, <<"texPipeline", 0>>,
                 <<"_trianglePipelineLayout", 0>>, <<"_meshPipelineLayout", 0>>,
                 <<"texturedPipeLayout", 0>> >>
         [] function[1] = "imgui" ->
              << <<"imguiPool", 0>>, <<"ImGui_ImplVulkan", 0>>, <<"ImGui_ImplSDL2", 0>>,
                 <<"ImGui context", 0>> >>
         [] function[1] = "descriptorLayouts_pool" ->
              << <<"_globalSetLayout", 0>>, <<"_objectSetLayout", 0>>,
                 <<"_singleTextureSetLayout", 0>>, <<"_descriptorPool", 0>> >>
         [] function[1] = "cameraBuffer_objectBuffer" ->
              << <<"cameraBuffer", i>>, <<"objectBuffer", i>> >>
         [] OTHER -> << function >>

\* every destroy call a flush makes, given the deletors in the order it calls them
RECURSIVE DestroyCalls(_)
DestroyCalls(functions) ==
    IF functions = <<>> THEN <<>>
    ELSE DeletorCalls(Head(functions)) \o DestroyCalls(Tail(functions))

\* lines 158-162 of cleanup()
CleanupDestroyCalls ==
    << <<"_device", 0>>, <<"_surface", 0>>, <<"_debug_messenger", 0>>, <<"_instance", 0>>,
       <<"_window", 0>> >>

\* _mainDeletionQueue.flush()
CleanupFlush ==
    /\ pc = "cleanup_flush"
    /\ QueueFlush
    /\ teardown' = teardown \o DestroyCalls(flush_calls(deletors))
    /\ pc' = "cleanup_destroy"
    /\ UNCHANGED <<ret, uploadId, idx, bQuit, gpuVars, tickVars, sceneVars, frameVars>>
    /\ UNCHANGED callVars

\* vkDestroyDevice ... SDL_DestroyWindow
CleanupDestroy ==
    /\ pc = "cleanup_destroy"
    /\ teardown' = teardown \o CleanupDestroyCalls
    /\ pc' = main_after("cleanup")
    /\ UNCHANGED <<ret, uploadId, idx, bQuit, gpuVars, tickVars, sceneVars, frameVars,
                   dqVars>>
    /\ UNCHANGED callVars

----------------------------------------------------------------------------
(* The GPU *)

\* the oldest submission of the queue completes and its fence is signaled
GpuComplete ==
    /\ pc \notin {"done", "aborted"}
    /\ gpuQueue # <<>>
    /\ LET done == Head(gpuQueue)
       IN IF done.kind = "frame"
          THEN /\ renderFence' = [renderFence EXCEPT ![done.slot] = "signaled"]
               /\ cmdBuf' = [cmdBuf EXCEPT ![done.slot] =
                                IF @ = "pending" THEN "invalid" ELSE @]
               /\ UNCHANGED uploadFence
          ELSE /\ uploadFence' = "signaled"
               /\ UNCHANGED <<renderFence, cmdBuf>>
    /\ uploadCmd' = IF Head(gpuQueue).kind = "upload" /\ uploadCmd = "pending"
                     THEN "invalid" ELSE uploadCmd
    /\ gpuQueue' = Tail(gpuQueue)
    /\ UNCHANGED <<cpuVars, stagingDestroyed, tickVars, sceneVars, frameVars, dqVars,
                   lastCall, isLog, pipelineLocals>>

----------------------------------------------------------------------------
(* The engine as a whole *)

\* the engine object as constructed: empty registries, nothing rendered; the
\* map nodes get their addresses in creation order
Init ==
    /\ DQInit /\ PadIdle /\ FrameIdle /\ EngineInit
    /\ matAddr = [n \in MaterialNames |->
                    CASE n = "defaultmesh" -> 1
                      [] n = "defaultmesh_duplicate" -> 2
                      [] OTHER -> 3]
    /\ meshAddr = [n \in MeshNames |->
                    CASE n = "monkey" -> 1
                      [] n = "wolf" -> 2
                      [] n = "maleHuman" -> 3
                      [] n = "triangle" -> 4
                      [] OTHER -> 5]
    /\ materials = <<>>
    /\ added = <<>>
    /\ renderables = <<>>
    /\ scenePc = "init_scene"

InitSteps ==
    \/ InitVulkan \/ InitSwapchain \/ InitCommands \/ InitDefaultRenderpass
    \/ InitFramebuffers \/ InitSyncStructures \/ InitDescriptors \/ InitPipelines
    \/ InitPipelinesDestroyShaders \/ InitPipelinesEnd
    \/ InitImgui \/ InitImguiPush \/ LoadImageFromFile \/ LoadImagesPush
    \/ UploadMesh \/ UploadMeshPush \/ UploadMeshDestroyStaging \/ InitSceneOfInit

ImmediateSubmitSteps ==
    \/ ImmediateBegin \/ ImmediateFunction \/ ImmediateEnd \/ ImmediateSubmit
    \/ ImmediateWait \/ ImmediateResetFence \/ ImmediateResetPool

DrawSteps ==
    \/ DrawEnter \/ DrawWaitFence \/ DrawResetFence
    \/ DrawBeginCommandBuffer \/ DrawEndCommandBuffer \/ DrawIncrement \/ DrawReturn

\* the steps of draw() that hand semaphore operations to the GPU
SemaphoreSteps == DrawAcquire \/ DrawSubmit \/ DrawPresent

\* the steps of draw() that change what a command buffer holds
RecordingSteps == DrawResetCommandBuffer \/ DrawRecord

CleanupSteps == CleanupWait \/ CleanupFlush \/ CleanupDestroy

Next ==
    \/ (InitSteps /\ UNCHANGED <<padVars, runVars, recorded, teardown, semLog>>)
    \/ (ImmediateSubmitSteps /\ UNCHANGED <<padVars, runVars, recorded, teardown, semLog>>)
    \/ (RunPoll /\ UNCHANGED <<padVars, recorded, teardown, semLog>>)
    \/ (DrawSteps /\ UNCHANGED <<padVars, runVars, recorded, teardown, semLog>>)
    \/ (RecordingSteps /\ UNCHANGED <<padVars, runVars, teardown, semLog>>)
    \/ (SemaphoreSteps /\ UNCHANGED <<padVars, runVars, recorded, teardown>>)
    \/ (CleanupSteps /\ UNCHANGED <<padVars, runVars, recorded, semLog>>)
    \/ (GpuComplete /\ UNCHANGED <<padVars, runVars, recorded, teardown, semLog>>)

Spec == Init /\ [][Next]_vars

\* the main thread inside draw() and cleanup(): one statement after the other,
\* it takes its next step whenever it has one
MainThread ==
    \/ (DrawSteps /\ UNCHANGED <<padVars, runVars, recorded, teardown, semLog>>)
    \/ (RecordingSteps /\ UNCHANGED <<padVars, runVars, teardown, semLog>>)
    \/ (SemaphoreSteps /\ UNCHANGED <<padVars, runVars, recorded, teardown>>)
    \/ (CleanupSteps /\ UNCHANGED <<padVars, runVars, recorded, semLog>>)

\* the GPU works through its queue
Gpu == GpuComplete /\ UNCHANGED <<padVars, runVars, recorded, teardown, semLog>>

\* every teardown action init() has pushed when it returns, in push order
InitDeletors ==
    << <<"vmaDestroyAllocator", 0>>, <<"swapchain_depthImage", 0>> >>
    \o PerIndex("commandPool", FRAME_OVERLAP)
    \o << <<"uploadCommandPool", 0>>, <<"renderPass", 0>> >>
    \o PerIndex("framebuffer_imageView", SwapchainImageCount)
    \o SyncDeletors
    \o << <<"descriptorLayouts_pool", 0>>, <<"sceneParameterBuffer", 0>> >>
    \o PerIndex("cameraBuffer_objectBuffer", FRAME_OVERLAP)
    \o << <<"pipelines_layouts", 0>>, <<"imgui", 0>> >>
    \o LoadImageFromFileDeletors
    \o << <<"lostEmpire_imageView", 0>> >>
    \o [k \in 1..Len(MeshUploadOrder) |-> <<"vertexBuffer", k>>]
    \o << <<"blockySampler", 0>> >>

\* the log of the last immediate_submit of init()
LastUploadLog ==
    << [op |-> "BeginCommandBuffer", cmd |-> "upload"],
       [op |-> "function", id |-> MeshUploadOrder[Len(MeshUploadOrder)]],
       [op |-> "EndCommandBuffer", cmd |-> "upload"],
       [op |-> "QueueSubmit", fence |-> "uploadFence", cmd |-> "upload"],
       [op |-> "WaitForFences", fence |-> "uploadFence"],
       [op |-> "ResetFences", fence |-> "uploadFence"],
       [op |-> "ResetCommandPool", pool |-> "upload"] >>

\* the engine when init() has returned on a run in which every call succeeded
\* and the GPU completed every upload before its fence wait: run() is about to
\* poll for the first time
InitLive ==
    /\ PadIdle
    /\ deletors = InitDeletors
    /\ pushed = InitDeletors
    /\ executed = <<>>
    /\ marks = <<>>
    /\ matAddr = [n \in MaterialNames |->
                    CASE n = "defaultmesh" -> 1
                      [] n = "defaultmesh_duplicate" -> 2
                      [] OTHER -> 3]
    /\ meshAddr = [n \in MeshNames |->
                    CASE n = "monkey" -> 1
                      [] n = "wolf" -> 2
                      [] n = "maleHuman" -> 3
                      [] n = "triangle" -> 4
                      [] OTHER -> 5]
    /\ materials = AllocateTextureSet(MaterialsAfterInitPipelines, "VK_SUCCESS")
    /\ added = SceneAsPushed
    /\ \E tieFirst \in BOOLEAN : renderables = std_sort(SceneAsPushed, tieFirst)
    /\ scenePc = "ready"
    /\ minUboAlign \in DeviceAlignments
    /\ frameNumber = 0
    /\ pass = NoPass
    /\ pc = main_after("init")
    /\ ret = "upload_mesh_push"
    /\ uploadId = MeshUploadOrder[Len(MeshUploadOrder)]
    /\ idx = 0
    /\ bQuit = FALSE
    /\ renderFence = [s \in Slots |-> vkCreateFence(fenceCreateInfo)]
    /\ uploadFence = "unsignaled"
    /\ cmdBuf = [s \in Slots |-> "initial"]
    /\ gpuQueue = <<>>
    /\ currFrame = 0
    /\ tickLog = <<>>
    /\ slotHistory = <<>>
    /\ drawsDone = 0
    /\ stagingDestroyed = {MeshUploadOrder[k] : k \in 1..Len(MeshUploadOrder)}
    /\ lastCall = Call("vkAllocateDescriptorSets", "VK_SUCCESS")
    /\ uploadCmd = "initial"
    /\ isLog = LastUploadLog
    /\ pipelineLocals = NoLocals
    /\ recorded = [s \in Slots |-> <<>>]
    /\ teardown = <<>>
    /\ semLog = <<>>
    /\ camPos = <<0, 0 - 6, 0 - 10>>
    /\ useColoredTrianglePipeline = FALSE
    /\ lastEvent = NoEvent
    /\ polled = 0

\* run() and cleanup() with the GPU
NextLive ==
    \/ (RunPoll /\ UNCHANGED <<padVars, recorded, teardown, semLog>>)
    \/ MainThread
    \/ Gpu

\* the main thread has gone on from the statement of draw() that records
RecordDone == pc = "draw_record" /\ pc' = draw_next("draw_record")

\* the main thread keeps running once it is in draw() or in cleanup(): it takes
\* the step of the statement it is at
MainThreadRuns ==
    /\ WF_vars(DrawSteps /\ UNCHANGED <<padVars, runVars, recorded, teardown, semLog>>)
    /\ WF_vars(DrawResetCommandBuffer /\ UNCHANGED <<padVars, runVars, teardown, semLog>>)
    /\ WF_vars(SemaphoreSteps /\ UNCHANGED <<padVars, runVars, recorded, teardown>>)
    /\ WF_pc(RecordDone)
    /\ WF_vars(CleanupSteps /\ UNCHANGED <<padVars, runVars, recorded, semLog>>)

\* run() and cleanup() after a successful init(), with a main thread that keeps
\* running and a GPU that completes every submission eventually
SpecLive == InitLive /\ [][NextLive]_vars /\ MainThreadRuns /\ WF_vars(Gpu)

----------------------------------------------------------------------------
(* The event loop of run() on its own: any events, one at a time *)

\* one iteration of while (SDL_PollEvent(&e) != 0) with the event e
PollEvent ==
    /\ polled < MaxEvents
    /\ \E e \in Events :
         LET st == ProcessEvent(e, [bQuit |-> bQuit, camPos |-> camPos,
                                    useColoredTrianglePipeline |->
                                        useColoredTrianglePipeline])
         IN /\ bQuit' = st.bQuit
            /\ camPos' = st.camPos
            /\ useColoredTrianglePipeline' = st.useColoredTrianglePipeline
            /\ lastEvent' = e
    /\ polled' = polled + 1
    /\ UNCHANGED <<dqVars, padVars, sceneVars, frameVars, pc, ret, uploadId, idx, gpuVars,
                   tickVars, callVars, recorded, teardown, semLog>>

InitRun == DQInit /\ PadIdle /\ SceneIdle /\ FrameIdle /\ EngineInit
NextRun == PollEvent
SpecRun == InitRun /\ [][NextRun]_vars

----------------------------------------------------------------------------
(* Claims *)

\* the segment of pushes that flush number k had in the queue
FlushLo(k) == IF k = 1 THEN 0 ELSE marks[k - 1]
FlushHi(k) == marks[k]

\* C2: every flush() calls the actions pushed since the previous flush in
\* exactly the reverse of their push order, each exactly once, and nothing else.
C2_FlushReverseExactlyOnce ==
    /\ Len(executed) = (IF marks = <<>> THEN 0 ELSE marks[Len(marks)])
    /\ \A k \in 1..Len(marks) :
         \A i \in 1..(FlushHi(k) - FlushLo(k)) :
            executed[FlushLo(k) + i] = pushed[FlushHi(k) + 1 - i]

C2_Witness ==
    /\ pushed = <<"f1", "f2", "f3">>
    /\ marks = <<3>>
    /\ executed = <<"f3", "f2", "f1">>

\* r is the smallest multiple of a that is >= s
IsSmallestMultipleAtLeast(r, s, a) ==
    /\ r % a = 0
    /\ r >= s
    /\ r - s < a

\* C7 as stated: for every size and every alignment A > 0 the result is the
\* smallest multiple of A that is >= S, and S itself when A = 0.
C7_PadSmallestMultipleAnyAlign ==
    padOut # NoValue =>
        IF padAlign > 0
        THEN IsSmallestMultipleAtLeast(padOut, padSize, padAlign)
        ELSE padOut = padSize

\* C7 amended: the same for every alignment that is a power of two and every
\* size S with S + A - 1 representable in size_t; S itself when A = 0.
C7_PadSmallestMultiplePow2 ==
    padOut # NoValue =>
        IF padAlign > 0
        THEN (IsPowerOfTwo(padAlign) /\ padSize + padAlign - 1 <= SizeMax)
                => IsSmallestMultipleAtLeast(padOut, padSize, padAlign)
        ELSE padOut = padSize

C7_Witness ==
    /\ padSize = 176
    /\ padAlign = 256
    /\ padOut = 256

\* the number of maximal runs of consecutive objects with the same material
MaterialRuns(s) ==
    Cardinality({i \in 1..Len(s) : i = 1 \/ s[i].material # s[i - 1].material})

\* the number of maximal runs of consecutive objects with the same mesh
MeshRuns(s) ==
    Cardinality({i \in 1..Len(s) : i = 1 \/ s[i].mesh # s[i - 1].mesh})

\* the number of commands of the pass that satisfy Test
CountCmds(cmds, Test(_)) == Cardinality({i \in 1..Len(cmds) : Test(cmds[i])})

IsBindPipeline(c) == c.op = "BindPipeline"
IsBindGlobalSet(c) == c.op = "BindDescriptorSets" /\ c.firstSet = 0
IsBindObjectSet(c) == c.op = "BindDescriptorSets" /\ c.firstSet = 1
IsBindVertexBuffers(c) == c.op = "BindVertexBuffers"
IsDraw(c) == c.op = "Draw"

\* ascending by (material address, mesh address)
IsSortedScene(s) ==
    \A i, j \in 1..Len(s) :
        i < j => /\ s[i].material <= s[j].material
                 /\ (s[i].material = s[j].material => s[i].mesh <= s[j].mesh)

Occurrences(s, o) == Cardinality({i \in 1..Len(s) : s[i] = o})

IsPermutationOf(s, t) ==
    /\ Len(s) = Len(t)
    /\ \A i \in 1..Len(s) : Occurrences(s, s[i]) = Occurrences(t, s[i])

\* C6: over a sorted sequence with M material runs and K mesh runs, draw_objects
\* records exactly M pipeline binds (each with its global and object descriptor
\* set binds) and exactly K vertex-buffer binds, whatever the number of objects.
C6_RebindsEqualRuns ==
    (pass.frame # NoValue /\ IsSortedScene(renderables)) =>
        /\ pass.pipelineBindCount = MaterialRuns(renderables)
        /\ CountCmds(pass.cmds, IsBindPipeline) = MaterialRuns(renderables)
        /\ CountCmds(pass.cmds, IsBindGlobalSet) = MaterialRuns(renderables)
        /\ CountCmds(pass.cmds, IsBindObjectSet) = MaterialRuns(renderables)
        /\ pass.vertexBuffersBindCount = MeshRuns(renderables)
        /\ CountCmds(pass.cmds, IsBindVertexBuffers) = MeshRuns(renderables)
        /\ CountCmds(pass.cmds, IsDraw) = Len(renderables)

C6_Witness ==
    /\ pass.frame # NoValue
    /\ IsSortedScene(renderables)
    /\ Len(renderables) = 3
    /\ MaterialRuns(renderables) = 2
    /\ MeshRuns(renderables) = 1
    /\ pass.pipelineBindCount = 2
    /\ pass.vertexBuffersBindCount = 1

\* C8: after init_scene the render objects are in ascending order of material
\* address and, within a material, of mesh address, and they are a permutation
\* of the objects init_scene added.
C8_SceneSortedPermutation ==
    scenePc = "ready" =>
        /\ IsSortedScene(renderables)
        /\ IsPermutationOf(renderables, added)

C8_Witness ==
    /\ scenePc = "ready"
    /\ Len(added) = 3 + GridWidth * GridWidth + 1
    /\ renderables # added
    /\ \E i, j \in 1..Len(renderables) :
          /\ i < j
          /\ renderables[i].material = renderables[j].material
          /\ renderables[i].mesh < renderables[j].mesh

----------------------------------------------------------------------------
(* The frame slots and their fences *)

\* the statements of draw() between the checked fence wait and the submit
AfterFenceWait ==
    {"draw_reset_fence", "draw_acquire", "draw_reset_cmd", "draw_begin", "draw_record",
     "draw_end", "draw_submit"}

\* C1: a slot's command buffer is reset and re-recorded only after the slot's
\* fence was observed signaled, that is after the GPU completed the slot's
\* previous submission; no slot is recorded while a submission of it is still
\* executing.
C1_NoRecordingWhileInFlight ==
    /\ pc \in AfterFenceWait =>
         /\ tickLog # <<>>
         /\ tickLog[1] = [op |-> "WaitForFences", fence |-> currFrame]
         /\ ~InFlight(currFrame)
    /\ pc = "draw_reset_fence" => renderFence[currFrame] = "signaled"
    /\ \A s \in Slots : cmdBuf[s] \in {"initial", "recording", "executable"}
                            => ~InFlight(s)
    /\ \A i \in 1..Len(gpuQueue) :
         gpuQueue[i].kind = "frame" /\ pc \in AfterFenceWait
             => gpuQueue[i].frame = frameNumber - 1

\* slot 0 is recorded a second time while the other slot's frame is in flight
C1_Witness ==
    /\ pc = "draw_record"
    /\ frameNumber = 2
    /\ cmdBuf[currFrame] = "recording"
    /\ InFlight(1 - currFrame)

\* C3: whenever cleanup() calls flush(), every frame fence is signaled and no
\* frame submission is still executing, whatever the fence waits of cleanup()
\* returned.
C3_FlushOnlyWhenFramesDone ==
    pc = "cleanup_flush" =>
        \A s \in Slots : renderFence[s] = "signaled" /\ ~InFlight(s)

\* C4: immediate_submit returns only after the GPU completed what it
\* submitted, whatever its fence wait returned; no staging buffer is destroyed
\* while its copy is still executing.
C4_ImmediateSubmitReturnsAfterCompletion ==
    /\ \A i \in 1..Len(gpuQueue) :
         gpuQueue[i].kind = "upload"
             => pc \in ImmediateSubmitPcs /\ gpuQueue[i].id = uploadId
    /\ \A id \in stagingDestroyed : ~UploadInFlight(id)

----------------------------------------------------------------------------
(* The order of a tick *)

\* the steps of one tick on slot s, as the specification lists them
TickOrder(s) ==
    << [op |-> "WaitForFences", fence |-> s],
       [op |-> "ResetFences", fence |-> s],
       [op |-> "AcquireNextImage", signalSemaphore |-> <<"presentSemaphore", s>>],
       [op |-> "ResetCommandBuffer", cmd |-> s],
       [op |-> "BeginCommandBuffer", cmd |-> s],
       [op |-> "Record", cmd |-> s],
       [op |-> "EndCommandBuffer", cmd |-> s],
       [op |-> "QueueSubmit", cmd |-> s,
        waitSemaphore |-> <<"presentSemaphore", s>>,
        signalSemaphore |-> <<"renderSemaphore", s>>,
        fence |-> s],
       [op |-> "QueuePresent", waitSemaphore |-> <<"renderSemaphore", s>>],
       [op |-> "IncrementFrameNumber"] >>

\* C5: the steps a tick of draw() has performed are, in order and each once,
\* the first steps of: wait fence, reset fence, acquire, reset command buffer,
\* begin, record, end, submit, present, increment; a tick that returns has
\* performed them all.
C5_TickOrder ==
    /\ Len(tickLog) <= Len(TickOrder(currFrame))
    /\ tickLog = SubSeq(TickOrder(currFrame), 1, Len(tickLog))
    /\ pc = "draw_return" => tickLog = TickOrder(currFrame)

\* a tick on slot 1 has run to its end
C5_Witness ==
    /\ pc = "draw_return"
    /\ currFrame = 1
    /\ Len(tickLog) = 10

----------------------------------------------------------------------------
(* Slot selection *)

\* the statements of draw() that run with the slot selected and the frame
\* number not yet incremented
InTick ==
    {"draw_wait", "draw_reset_fence", "draw_acquire", "draw_reset_cmd", "draw_begin",
     "draw_record", "draw_end", "draw_submit", "draw_present", "draw_increment"}

\* C9: the slot of a tick is frameNumber mod 2; the frame number starts at 0
\* and grows by one per completed draw(), so the k-th tick (from 0) uses slot
\* k mod 2 and consecutive ticks alternate; draw and draw_objects resolve the
\* same slot within a tick.
C9_SlotIsFrameNumberMod2 ==
    /\ frameNumber = drawsDone + (IF pc = "draw_return" THEN 1 ELSE 0)
    /\ \A k \in 1..Len(slotHistory) : slotHistory[k] = (k - 1) % 2
    /\ \A k \in 1..(Len(slotHistory) - 1) : slotHistory[k] # slotHistory[k + 1]
    /\ pc \in InTick =>
         /\ Len(slotHistory) = frameNumber + 1
         /\ currFrame = frameNumber % 2
    /\ pc \in {"draw_end", "draw_submit", "draw_present", "draw_increment"} =>
         /\ pass.frame = frameNumber
         /\ pass.cameraSlot = currFrame
         /\ pass.objectSlot = currFrame
         /\ \A i \in 1..Len(pass.cmds) :
              pass.cmds[i].op = "BindDescriptorSets" /\ pass.cmds[i].firstSet \in {0, 1}
                  => pass.cmds[i].slot = currFrame

\* the third tick (frame number 2) has recorded its pass on slot 0 again
C9_Witness ==
    /\ pc = "draw_end"
    /\ frameNumber = 2
    /\ currFrame = 0
    /\ slotHistory = <<0, 1, 0>>
    /\ pass.cameraSlot = 0

----------------------------------------------------------------------------
(* The scene uniform's offset *)

\* C10: in the pass of frame number f the offset the scene uniform is written
\* at and the dynamic offset of every bind of the global set are both
\* stride * (f mod 2), where stride is the padded size of the scene struct;
\* with alignment 256 and size 176 the stride is 256 and the offsets 0 and 256.
C10_SceneOffsetIsStrideTimesFrameIndex ==
    /\ pad_uniform_buffer_size(176, 256) = 256
    /\ SizeMul(pad_uniform_buffer_size(176, 256), 0) = 0
    /\ SizeMul(pad_uniform_buffer_size(176, 256), 1) = 256
    /\ pass # NoPass =>
         LET stride == pad_uniform_buffer_size(SizeofGPUSceneData, minUboAlign)
         IN /\ IsSmallestMultipleAtLeast(stride, SizeofGPUSceneData, minUboAlign)
            /\ pass.sceneOffset = stride * (pass.frame % 2)
            /\ \A i \in 1..Len(pass.cmds) :
                 IsBindGlobalSet(pass.cmds[i])
                     => pass.cmds[i].dynamicOffset = stride * (pass.frame % 2)

\* frame 1 on a device of alignment 256: written at 256 and bound at 256
C10_Witness ==
    /\ pass # NoPass
    /\ minUboAlign = 256
    /\ pass.frame = 1
    /\ pass.sceneOffset = 256
    /\ \E i \in 1..Len(pass.cmds) :
         IsBindGlobalSet(pass.cmds[i]) /\ pass.cmds[i].dynamicOffset = 256

----------------------------------------------------------------------------
(* immediate_submit: its steps and the state it leaves *)

\* the steps of one immediate_submit carrying upload id, as the specification
\* lists them
ImmediateOrder(id) ==
    << [op |-> "BeginCommandBuffer", cmd |-> "upload"],
       [op |-> "function", id |-> id],
       [op |-> "EndCommandBuffer", cmd |-> "upload"],
       [op |-> "QueueSubmit", cmd |-> "upload", fence |-> "uploadFence"],
       [op |-> "WaitForFences", fence |-> "uploadFence"],
       [op |-> "ResetFences", fence |-> "uploadFence"],
       [op |-> "ResetCommandPool", pool |-> "upload"] >>

\* the statements immediate_submit returns to
ImmediateReturnPcs == {"init_imgui_push", "load_images_push", "upload_mesh_push"}

\* the steps immediate_submit has performed are the first steps of the listed
\* order, and all of them when it returns
ImmediateStepsInOrder ==
    /\ Len(isLog) <= Len(ImmediateOrder(uploadId))
    /\ isLog = SubSeq(ImmediateOrder(uploadId), 1, Len(isLog))
    /\ pc \in ImmediateReturnPcs => isLog = ImmediateOrder(uploadId)

\* C11: immediate_submit performs begin, the routine once, end, submit with
\* the upload fence, wait, reset fence, reset pool, in this order; on return
\* the upload fence is unsignaled and the command buffer reset, so that every
\* call starts from the state the first call started from.
C11_ImmediateSubmitOrderAndReset ==
    /\ ImmediateStepsInOrder
    /\ pc \in ImmediateReturnPcs => uploadFence = "unsignaled" /\ uploadCmd = "initial"
    /\ pc = "is_begin" => uploadFence = "unsignaled" /\ uploadCmd = "initial"

\* the uploads still in the GPU queue
UploadsInFlight == {i \in 1..Len(gpuQueue) : gpuQueue[i].kind = "upload"}

\* immediate_submit runs only inside init(): with the upload command buffer and
\* fence created, no draw() begun and no frame slot being recorded
UploadsOnlyInInit ==
    pc \in ImmediateSubmitPcs =>
        /\ uploadFence # "null" /\ uploadCmd # "null"
        /\ slotHistory = <<>> /\ frameNumber = 0
        /\ \A s \in Slots : cmdBuf[s] # "recording"

\* C12: immediate_submit is never invoked while a frame slot is being recorded
\* and at most one upload is in flight at any time: every call is made inside
\* init(), after the upload command buffer and fence were created, each upload
\* completes before the next starts, and all complete before the first draw().
C12_UploadsSequentialBeforeFrames ==
    /\ UploadsOnlyInInit
    /\ Cardinality(UploadsInFlight) <= 1
    /\ pc = "is_begin" => UploadsInFlight = {}
    /\ slotHistory # <<>> => UploadsInFlight = {}

----------------------------------------------------------------------------
(* Failing calls *)

\* C13: every GPU API call whose result reports a failure or a timeout ends
\* the process at once: no failing result is dropped and nothing runs after a
\* failed call; shader-module loads and pipeline builds are the stated
\* exceptions, and lastCall does not record them.
C13_EveryFailureTerminates ==
    lastCall.result # "VK_SUCCESS" => pc = "aborted"

\* the Vulkan call behind a logged step of draw()
DrawCallOf(op) ==
    CASE op = "WaitForFences" -> "vkWaitForFences"
      [] op = "ResetFences" -> "vkResetFences"
      [] op = "AcquireNextImage" -> "vkAcquireNextImageKHR"
      [] op = "ResetCommandBuffer" -> "vkResetCommandBuffer"
      [] op = "BeginCommandBuffer" -> "vkBeginCommandBuffer"
      [] op = "EndCommandBuffer" -> "vkEndCommandBuffer"
      [] op = "QueueSubmit" -> "vkQueueSubmit"
      [] op = "QueuePresent" -> "vkQueuePresentKHR"
      [] OTHER -> "none"

CleanupPcs == {"cleanup_wait", "cleanup_flush", "cleanup_destroy", "done"}

\* C14: a non-success result (a timeout included) of any checked call of draw()
\* aborts the process at that call: the tick's log ends with the failing call,
\* the frame number is not incremented, no step is repeated and the deletion
\* queue is never flushed; the frame number is incremented only by a tick
\* whose every step succeeded.
C14_DrawAbortsAtFailingCall ==
    /\ (tickLog # <<>> /\ pc \notin CleanupPcs /\ lastCall.result # "VK_SUCCESS")
           => pc = "aborted"
    /\ (pc = "aborted" /\ tickLog # <<>>) =>
         /\ lastCall.result # "VK_SUCCESS"
         /\ lastCall.call = DrawCallOf(tickLog[Len(tickLog)].op)
         /\ tickLog = SubSeq(TickOrder(currFrame), 1, Len(tickLog))
         /\ frameNumber = Len(slotHistory) - 1
         /\ frameNumber = drawsDone
         /\ executed = <<>> /\ marks = <<>>
    /\ (slotHistory # <<>> /\ frameNumber = Len(slotHistory)) =>
         tickLog = TickOrder(currFrame)

\* the third tick finds its slot's fence unsignaled after the timeout and the
\* process aborts there
C14_Witness ==
    /\ pc = "aborted"
    /\ lastCall = Call("vkWaitForFences", "VK_TIMEOUT")
    /\ Len(tickLog) = 1
    /\ frameNumber = 2
    /\ drawsDone = 2

----------------------------------------------------------------------------
(* Failures that do not end the process: pipeline builds and shader loads *)

\* a failing build_pipeline leaves the process running, is logged and gives
\* the null handle
PipelineBuildFailureNotFatal ==
    pipelineLocals.running =>
        \A p \in PipelineNames :
            ~pipelineLocals.created[p] =>
                /\ pc # "aborted"
                /\ pipelineLocals.pipelines[p] = NullHandle
                /\ <<"failed to create pipeline", p>> \in pipelineLocals.log

\* a failing load_shader_module leaves the process running and is logged
ShaderLoadFailureNotFatal ==
    pipelineLocals.running =>
        \A f \in pipelineLocals.failedLoads :
            pc # "aborted" /\ <<"Error loading", f>> \in pipelineLocals.log

\* C15: a failing build_pipeline does not end the process, is logged and gives
\* the null handle; no draw pass binds the pipeline of a material whose
\* pipeline handle is null.
C15_NullPipelineNeverBound ==
    /\ PipelineBuildFailureNotFatal
    /\ pass # NoPass =>
         \A i \in 1..Len(pass.cmds) :
            IsBindPipeline(pass.cmds[i]) => pass.cmds[i].pipeline # NullHandle

\* C16: a failing load_shader_module does not end the process and is logged,
\* the shader module handle that results is null, and the module is used in no
\* pipeline shader stage and in no later call.
C16_FailedShaderModuleUnused ==
    pipelineLocals.running =>
        \A f \in pipelineLocals.failedLoads :
            /\ ShaderLoadFailureNotFatal
            /\ pipelineLocals.shaders[f] = NullHandle
            /\ \A p \in PipelineNames : f \notin pipelineLocals.stages[p]
            /\ f \notin pipelineLocals.destroyed

----------------------------------------------------------------------------
(* One draw pass: the object buffer and the per-object commands *)

IsPushConstants(c) == c.op = "PushConstants"

\* the positions in cmds of the commands the test selects, in order
Positions(cmds, Test(_)) == {k \in 1..Len(cmds) : Test(cmds[k])}

\* the n-th smallest member of a set of positions
RECURSIVE NthOf(_, _)
NthOf(S, n) ==
    LET least == CHOOSE k \in S : \A j \in S : k <= j
    IN IF n = 1 THEN least ELSE NthOf(S \ {least}, n - 1)

----------------------------------------------------------------------------
(* flush() leaves nothing behind *)

\* what the pushes since the latest flush put into the queue
PushedSinceLastFlush ==
    SubSeq(pushed, (IF marks = <<>> THEN 0 ELSE marks[Len(marks)]) + 1, Len(pushed))

\* a step that is a call of flush()
IsFlushStep == marks' # marks

\* C18: a flush leaves the queue empty; a flush of an empty queue, and so a
\* flush that directly follows a flush, executes nothing; in push, flush, push,
\* flush the second flush executes the actions pushed after the first flush
\* and no others.
C18_FlushEmptiesQueue ==
    [][IsFlushStep =>
          LET flushedNow == SubSeq(executed', Len(executed) + 1, Len(executed'))
          IN /\ deletors' = <<>>
             /\ SubSeq(executed', 1, Len(executed)) = executed
             /\ deletors = <<>> => executed' = executed
             /\ (marks # <<>> /\ marks[Len(marks)] = Len(pushed)) => executed' = executed
             /\ IsPermutationOf(flushedNow, PushedSinceLastFlush)]_vars

\* push f1, flush, push f2, flush: the second flush called f2 only; the first
\* action was not called again
C18_Witness ==
    /\ pushed = <<"f1", "f2">>
    /\ marks = <<1, 2>>
    /\ executed = <<"f1", "f2">>
    /\ deletors = <<>>

----------------------------------------------------------------------------
(* Padding a padded size *)

\* C19: padding is idempotent for every size and every alignment, zero and
\* alignments that are not powers of two included:
\* pad(pad(S, A), A) = pad(S, A).
C19_PadIdempotent ==
    padTwice # NoValue => padTwice = pad_uniform_buffer_size(padSize, padAlign)

\* an alignment that is not a power of two, on a size the padding changes
C19_Witness ==
    /\ padAlign = 6
    /\ padSize = 1
    /\ padOut = 2
    /\ padTwice = 2

----------------------------------------------------------------------------
(* Pipeline binds of one pass over the scene of init_scene *)

\* C20: a draw pass over the sorted scene of init_scene binds a pipeline
\* exactly 3 times, once for each of the three materials, whatever order the
\* material addresses are in and however many grid objects there are.
C20_ThreePipelineBindsPerPass ==
    (scenePc = "ready" /\ pass # NoPass) =>
        /\ pass.pipelineBindCount = 3
        /\ CountCmds(pass.cmds, IsBindPipeline) = 3
        /\ {c.material : c \in {pass.cmds[k] : k \in Positions(pass.cmds, IsBindPipeline)}}
             = {matAddr[n] : n \in MaterialNames}

\* a pass over the whole scene with the material used last by init_scene at
\* the lowest address and the grid's two materials apart from each other
C20_Witness ==
    /\ pass # NoPass
    /\ Len(renderables) = 3 + GridWidth * GridWidth + 1
    /\ matAddr["texturedmesh"] < matAddr["defaultmesh_duplicate"]
    /\ matAddr["defaultmesh_duplicate"] < matAddr["defaultmesh"]
    /\ renderables[1].material = matAddr["texturedmesh"]
    /\ pass.pipelineBindCount = 3

----------------------------------------------------------------------------
(* The material registry after create_material *)

\* C21 as stated: once a Material is in the registry no later step changes
\* any of its fields or replaces it.
C21_MaterialNeverMutated ==
    [][\A n \in DOMAIN materials :
          n \in DOMAIN materials' /\ materials'[n] = materials[n]]_vars

\* C21 amended: once a Material is in the registry it stays there and its
\* pipeline and pipeline layout never change; its texture descriptor set is
\* written by init_scene only, for the material "texturedmesh" only, in place
\* of the null handle create_material left there.
C21_MaterialMutatedOnlyByInitScene ==
    [][\A n \in DOMAIN materials :
          /\ n \in DOMAIN materials'
          /\ materials'[n].pipeline = materials[n].pipeline
          /\ materials'[n].pipelineLayout = materials[n].pipelineLayout
          /\ materials'[n].textureSet # materials[n].textureSet =>
                /\ pc = "init_scene"
                /\ n = "texturedmesh"
                /\ materials[n].textureSet = NullHandle]_vars

\* init_scene has written the texture set and frames have been drawn since
C21_Witness ==
    /\ DOMAIN materials = MaterialNames
    /\ materials["texturedmesh"].textureSet = "textureSet"
    /\ materials["defaultmesh"].textureSet = NullHandle
    /\ drawsDone = 2
    /\ pc = "done"

----------------------------------------------------------------------------
(* What a window event can change *)

CameraKeys == {"SDLK_w", "SDLK_a", "SDLK_s", "SDLK_d"}
UnitTranslations == {<<0, 0, 1>>, <<1, 0, 0>>, <<0, 0, 0 - 1>>, <<0 - 1, 0, 0>>}

IsQuitEvent(e) ==
    e.type = "SDL_QUIT" \/ (e.type = "SDL_KEYDOWN" /\ e.sym = "SDLK_ESCAPE")
IsCameraEvent(e) == e.type = "SDL_KEYDOWN" /\ e.sym \in CameraKeys
IsToggleEvent(e) == e.type = "SDL_KEYDOWN" /\ e.sym = "SDLK_SPACE"

\* a step of the event loop changes the camera position by one unit step and
\* only for a camera key, sets the exit flag only for a quit, and leaves the
\* rest of the engine alone
EventChangesCameraOrQuitOnly ==
    /\ UNCHANGED <<dqVars, padVars, sceneVars, frameVars, pc, ret, uploadId, idx, gpuVars,
                   tickVars, callVars, recorded, teardown, semLog>>
    /\ camPos' # camPos =>
          /\ IsCameraEvent(lastEvent')
          /\ \E d \in UnitTranslations : camPos' = Vec3Add(camPos, d)
    /\ IsCameraEvent(lastEvent') => camPos' # camPos
    /\ bQuit' # bQuit => IsQuitEvent(lastEvent')
    /\ IsQuitEvent(lastEvent') => bQuit'

\* C22 as stated: handling an event changes only the camera position (one unit
\* step, for a recognized key) or the exit flag (quit); no event changes any
\* other engine state, and an unrecognized event changes nothing.
C22_EventChangesOnlyCameraOrQuit ==
    [][polled' # polled =>
          /\ EventChangesCameraOrQuitOnly
          /\ UNCHANGED useColoredTrianglePipeline
          /\ (~IsCameraEvent(lastEvent') /\ ~IsQuitEvent(lastEvent')) =>
                UNCHANGED <<camPos, bQuit>>]_vars

\* C22 amended: the same, except that a key-down of the space bar toggles
\* useColoredTrianglePipeline (and changes nothing else); every other event
\* leaves that flag alone.
C22_EventChangesCameraQuitOrToggle ==
    [][polled' # polled =>
          /\ EventChangesCameraOrQuitOnly
          /\ IF IsToggleEvent(lastEvent')
             THEN useColoredTrianglePipeline' = ~useColoredTrianglePipeline
             ELSE UNCHANGED useColoredTrianglePipeline
          /\ (~IsCameraEvent(lastEvent') /\ ~IsQuitEvent(lastEvent')) =>
                UNCHANGED <<camPos, bQuit>>]_vars

\* w, then an unrecognized key, then s: the camera is back where it started
\* and nothing else has changed
C22_Witness ==
    /\ polled = 3
    /\ lastEvent = Event("SDL_KEYDOWN", "SDLK_s")
    /\ camPos = <<0, 0 - 6, 0 - 10>>
    /\ ~bQuit
    /\ ~useColoredTrianglePipeline

----------------------------------------------------------------------------
(* What a tick records into its command buffer *)

IsBeginRenderPass(c) == c.op = "BeginRenderPass"
IsEndRenderPass(c) == c.op = "EndRenderPass"
IsUiDrawData(c) == c.op = "ImGuiRenderDrawData"

\* the running tick has recorded its commands
TickHasRecorded == \E k \in 1..Len(tickLog) : tickLog[k].op = "Record"

\* C23: once a tick has recorded, the command buffer of its slot holds, and
\* holds until the tick ends: one render-pass begin, first; then exactly the
\* commands of draw_objects; then the UI draw data, once; then the render-pass
\* end, last, so that nothing follows it before the command buffer is ended.
C23_UiInsidePassAfterBatch ==
    TickHasRecorded =>
        LET r == recorded[currFrame]
            n == Len(r)
        IN /\ Positions(r, IsBeginRenderPass) = {1}
           /\ Positions(r, IsUiDrawData) = {n - 1}
           /\ Positions(r, IsEndRenderPass) = {n}
           /\ SubSeq(r, 2, n - 2) = pass.cmds
           /\ Len(pass.cmds) = n - 3
           /\ \A k \in 1..(Len(tickLog) - 1) :
                 tickLog[k].op = "Record" =>
                    /\ tickLog[k].cmd = currFrame
                    /\ tickLog[k + 1].op = "EndCommandBuffer"
                    /\ tickLog[k + 1].cmd = currFrame

\* the second tick on slot 1 has recorded over the scene, and slot 0 still
\* holds what its own tick recorded
C23_Witness ==
    /\ pc = "draw_end"
    /\ currFrame = 1
    /\ Len(recorded[1]) > 3
    /\ recorded[1][Len(recorded[1]) - 1].op = "ImGuiRenderDrawData"
    /\ recorded[0] # <<>>

----------------------------------------------------------------------------
(* Teardown at shutdown *)

\* the position of the destroy call of resource r in the teardown log
DestroyedAt(r) == {k \in 1..Len(teardown) : teardown[k] = r}
DestroyedOnce(r) == Cardinality(DestroyedAt(r)) = 1
DestroyedBefore(a, b) == \A j \in DestroyedAt(a), k \in DestroyedAt(b) : j < k

\* the buffers and images the allocator gave out and the deletion queue owns
AllocatorResources ==
    {<<"_depthImage", 0>>, <<"lostEmpire_image", 0>>, <<"sceneParameterBuffer", 0>>}
    \cup {<<"cameraBuffer", s>> : s \in Slots} \cup {<<"objectBuffer", s>> : s \in Slots}
    \cup {<<"vertexBuffer", k>> : k \in 1..Len(MeshUploadOrder)}

SwapchainImages == 0..(SwapchainImageCount - 1)

\* everything init() created that is still alive when cleanup() starts
InitResources ==
    AllocatorResources
    \cup {<<"_allocator", 0>>, <<"_swapchain", 0>>, <<"_depthImageView", 0>>,
          <<"uploadCommandPool", 0>>, <<"renderPass", 0>>, <<"uploadFence", 0>>,
          <<"_globalSetLayout", 0>>, <<"_objectSetLayout", 0>>,
          <<"_singleTextureSetLayout", 0>>, <<"_descriptorPool", 0>>,
          <<"_coloredTrianglePipeline", 0>>, <<"_trianglePipeline", 0>>,
          <<"_meshPipeline", 0>>, <<"texPipeline", 0>>, <<"_trianglePipelineLayout", 0>>,
          <<"_meshPipelineLayout", 0>>, <<"texturedPipeLayout", 0>>, <<"imguiPool", 0>>,
          <<"ImGui_ImplVulkan", 0>>, <<"ImGui_ImplSDL2", 0>>, <<"ImGui context", 0>>,
          <<"lostEmpire_imageView", 0>>, <<"blockySampler", 0>>}
    \cup {<<"commandPool", s>> : s \in Slots} \cup {<<"renderFence", s>> : s \in Slots}
    \cup {<<"presentSemaphore", s>> : s \in Slots}
    \cup {<<"renderSemaphore", s>> : s \in Slots}
    \cup {<<"_framebuffers", i>> : i \in SwapchainImages}
    \cup {<<"_swapchainImageViews", i>> : i \in SwapchainImages}
    \cup {CleanupDestroyCalls[k] : k \in 1..Len(CleanupDestroyCalls)}

Pipelines ==
    {<<"_coloredTrianglePipeline", 0>>, <<"_trianglePipeline", 0>>, <<"_meshPipeline", 0>>,
     <<"texPipeline", 0>>}

\* the order of the teardown after cleanup(): the queue is flushed before the
\* device, the surface and the instance go; the allocator goes after every
\* buffer and image; each image view before its image; framebuffers and
\* pipelines before the render pass
TeardownInDependencyOrder ==
    pc = "done" =>
        /\ deletors = <<>>
        /\ Len(executed) = Len(pushed)
        /\ \A k \in 1..Len(pushed) :
              \A r \in {DeletorCalls(pushed[k])[j] : j \in 1..Len(DeletorCalls(pushed[k]))} :
                 /\ DestroyedBefore(r, <<"_device", 0>>)
                 /\ DestroyedBefore(r, <<"_surface", 0>>)
                 /\ DestroyedBefore(r, <<"_instance", 0>>)
        /\ pushed[1] = <<"vmaDestroyAllocator", 0>>
        /\ \A r \in AllocatorResources : DestroyedBefore(r, <<"_allocator", 0>>)
        /\ DestroyedBefore(<<"_depthImageView", 0>>, <<"_depthImage", 0>>)
        /\ DestroyedBefore(<<"lostEmpire_imageView", 0>>, <<"lostEmpire_image", 0>>)
        /\ \A i \in SwapchainImages :
              /\ DestroyedBefore(<<"_swapchainImageViews", i>>, <<"_swapchain", 0>>)
              /\ DestroyedBefore(<<"_framebuffers", i>>, <<"renderPass", 0>>)
        /\ \A p \in Pipelines : DestroyedBefore(p, <<"renderPass", 0>>)

\* after cleanup() everything init() left alive has been destroyed once
InitResourcesDestroyedOnce ==
    pc = "done" =>
        /\ \A r \in InitResources : DestroyedOnce(r)
        /\ \A k \in 1..Len(teardown) : teardown[k] \in InitResources
        /\ stagingDestroyed = {MeshUploadOrder[k] : k \in 1..Len(MeshUploadOrder)}

\* the shader modules init_pipelines created are each destroyed once, at its end
ShaderModulesDestroyedOnce ==
    (pipelineLocals.running /\ pipelineLocals.destroyed = ShaderFiles) =>
        \A g \in ShaderFiles \ pipelineLocals.failedLoads :
            Cardinality({f \in pipelineLocals.destroyed : pipelineLocals.shaders[f] = g}) = 1

\* C24: cleanup() runs every queued teardown action before it destroys the
\* device, the surface and the instance; within the flush the allocator goes
\* after every buffer and image, each image view before its image, framebuffers
\* and pipelines before the render pass; and every resource created during
\* init is destroyed exactly once.
C24_TeardownOrderAndExactlyOnce ==
    /\ TeardownInDependencyOrder
    /\ InitResourcesDestroyedOnce
    /\ ShaderModulesDestroyedOnce

----------------------------------------------------------------------------
(* Per-frame data and the submissions in flight *)

\* the bytes of the scene buffer a GPUSceneData block at an offset occupies
SceneBlock(offset) == offset..(offset + SizeofGPUSceneData - 1)

\* the frame submissions the GPU has not completed
FramesInFlight == {k \in 1..Len(gpuQueue) : gpuQueue[k].kind = "frame"}

\* the binds of the per-frame sets in the command buffer of a slot
IsBindPerFrameSet(c) == c.op = "BindDescriptorSets" /\ c.firstSet \in {0, 1}
PerFrameBinds(s) == {recorded[s][i] : i \in Positions(recorded[s], IsBindPerFrameSet)}

\* the step in which draw_objects writes the per-frame data
IsDrawObjectsStep == pc = "draw_record" /\ pc' # "draw_record"

\* C25: when draw_objects writes the per-frame data of frame f it writes the
\* camera buffer and the object buffer of slot f mod 2 and the scene block at
\* stride * (f mod 2), inside the scene buffer; no submission in flight reads
\* that slot's buffers or that block: the only submission that can be in
\* flight is that of frame f - 1, which reads the buffers of the other slot
\* and the other scene block, which does not overlap the written one and lies
\* inside the FRAME_OVERLAP * stride bytes of the scene buffer.
C25_NoInFlightReaderOfWrittenSlot ==
    [][IsDrawObjectsStep =>
         LET s == frameNumber % FRAME_OVERLAP
             stride == pad_uniform_buffer_size(SizeofGPUSceneData, minUboAlign)
             size == sceneParamBufferSize(minUboAlign)
         IN /\ pass'.cameraSlot = s
            /\ pass'.objectSlot = s
            /\ pass'.sceneOffset = stride * s
            /\ SceneBlock(pass'.sceneOffset) \subseteq 0..(size - 1)
            /\ size = FRAME_OVERLAP * stride
            /\ \A k \in FramesInFlight :
                  /\ gpuQueue[k].frame = frameNumber - 1
                  /\ gpuQueue[k].slot # s
                  /\ \A b \in PerFrameBinds(gpuQueue[k].slot) :
                        /\ b.slot = gpuQueue[k].slot
                        /\ b.firstSet = 0 =>
                              /\ SceneBlock(b.dynamicOffset) \subseteq 0..(size - 1)
                              /\ SceneBlock(b.dynamicOffset)
                                    \cap SceneBlock(pass'.sceneOffset) = {}
      ]_vars

\* frame 1 has written slot 1 and the block at 256 while the submission of
\* frame 0, which binds slot 0 and the block at 0, is still in flight
C25_Witness ==
    /\ pc = "draw_end"
    /\ frameNumber = 1
    /\ pass.cameraSlot = 1
    /\ pass.sceneOffset = 256
    /\ \E k \in FramesInFlight :
          /\ gpuQueue[k].frame = 0
          /\ \E b \in PerFrameBinds(0) : b.firstSet = 0 /\ b.dynamicOffset = 0

----------------------------------------------------------------------------
(* What is bound at each draw call *)

\* the last command before position i of cmds that satisfies Test, 0 if none
LastBefore(cmds, i, Test(_)) ==
    LET before == {j \in 1..(i - 1) : Test(cmds[j])}
    IN IF before = {} THEN 0
       ELSE CHOOSE j \in before : \A k \in before : k <= j

\* C26: whatever the order of the render objects, at every draw call
\* draw_objects records the pipeline bound last is the pipeline of the drawn
\* object's material and the vertex buffer bound last is that of its mesh;
\* the sentinels start unset in every pass, so the first object binds both.
C26_BoundStateMatchesDrawnObject ==
    pass # NoPass =>
        /\ \A i \in Positions(pass.cmds, IsDraw) :
              LET object == renderables[pass.cmds[i].firstInstance + 1]
                  p == LastBefore(pass.cmds, i, IsBindPipeline)
                  v == LastBefore(pass.cmds, i, IsBindVertexBuffers)
              IN /\ p > 0
                 /\ pass.cmds[p].pipeline = MaterialAt(object.material).pipeline
                 /\ v > 0
                 /\ pass.cmds[v].mesh = object.mesh
        /\ renderables # <<>> =>
              LET firstDraw == NthOf(Positions(pass.cmds, IsDraw), 1)
              IN /\ IsBindPipeline(pass.cmds[1])
                 /\ pass.cmds[1].material = renderables[1].material
                 /\ LastBefore(pass.cmds, firstDraw, IsBindVertexBuffers) > 0
                 /\ pass.pipelineBindCount >= 1
                 /\ pass.vertexBuffersBindCount >= 1

\* an unsorted sequence in a later pass: material and mesh come back after
\* another object, and each of the three draws is preceded by its own binds
C26_Witness ==
    /\ pass # NoPass
    /\ pass.frame = 1
    /\ Len(renderables) = 3
    /\ renderables[1] = renderables[3]
    /\ renderables[2].material # renderables[1].material
    /\ renderables[2].mesh # renderables[1].mesh
    /\ pass.pipelineBindCount = 3
    /\ pass.vertexBuffersBindCount = 3

----------------------------------------------------------------------------
(* Termination of draw() and of the waits of cleanup() *)

\* a fence wait is about a fence that is signaled or that a pending submission
\* will signal: at the top of a tick, first use of a slot included, and in
\* cleanup()
FenceWaitsAreAnswered ==
    /\ pc = "draw_wait" =>
          \/ renderFence[currFrame] = "signaled"
          \/ InFlight(currFrame)
    /\ (pc = "draw_wait" /\ frameNumber < FRAME_OVERLAP) =>
          renderFence[currFrame] = "signaled"
    /\ pc = "cleanup_wait" =>
          \/ renderFence[idx] = "signaled"
          \/ InFlight(idx)

\* a tick of draw() was ended by abort()
DrawAborted == pc = "aborted" /\ tickLog # <<>>

\* the tick and the frame number go together
FrameNumberCountsTicks ==
    /\ pc = "draw" => frameNumber = drawsDone
    /\ pc = "draw_return" => frameNumber = drawsDone + 1

\* C27 as stated: with a GPU that completes every submission eventually, no
\* tick of draw() is ended by its fence wait, so that every tick whose acquire
\* and present succeed returns with the frame number incremented.
C27_FenceWaitNeverEndsTick ==
    ~(DrawAborted /\ lastCall = Call("vkWaitForFences", "VK_TIMEOUT"))

\* C27: with a main thread that keeps running and a GPU that completes every
\* submission eventually, every call of draw() terminates: it returns with the
\* frame number incremented by one, unless one of its Vulkan calls returned
\* something other than VK_SUCCESS and VK_CHECK aborted, which the fence wait
\* does with VK_TIMEOUT when the GPU needs longer than the timeout. Every fence
\* wait is about a fence already signaled or signaled by a pending submission,
\* and the fence waits of cleanup() return.
C27_DrawTerminatesUnlessCallFails ==
    /\ [](FenceWaitsAreAnswered /\ FrameNumberCountsTicks)
    /\ (pc = "draw") ~>
          (\/ pc = "draw_return"
           \/ DrawAborted /\ lastCall.result # "VK_SUCCESS")
    /\ (pc = "cleanup_wait") ~> (pc = "cleanup_flush")

\* the third tick returns: its wait was for the fence of slot 0, reset by the
\* first tick and signaled by the completion of the first submission
C27_Witness ==
    /\ pc = "draw_return"
    /\ frameNumber = 3
    /\ currFrame = 0
    /\ slotHistory = <<0, 1, 0>>
    /\ renderFence[1] = "signaled"

----------------------------------------------------------------------------
(* The object buffer's capacity *)

\* C28: every draw pass writes no more object transforms into the slot's
\* object buffer than the MAX_OBJECTS entries it was created with, although
\* draw_objects checks no bound: it writes one entry per render object, and
\* the render objects are those init_scene built, whose number no later step
\* changes and which stays below the capacity for the grid of the code too.
C28_ObjectWritesWithinCapacity ==
    [][/\ pass' # NoPass =>
            /\ Len(pass'.objectSSBO) = Len(renderables')
            /\ Len(pass'.objectSSBO) <= objectBufferCapacity
       /\ scenePc = "ready" => renderables' = renderables
       /\ scenePc' = "ready" =>
            /\ Len(renderables') = SceneObjectCount(GridHalf)
            /\ SceneObjectCount(GridHalf) <= objectBufferCapacity
       /\ CodeSceneObjectCount <= objectBufferCapacity
      ]_vars

\* the third pass has written one transform for each object of the scene
C28_Witness ==
    /\ pass # NoPass
    /\ pass.frame = 2
    /\ Len(pass.objectSSBO) = SceneObjectCount(GridHalf)
    /\ Len(pass.objectSSBO) > 1
    /\ pc = "done"

----------------------------------------------------------------------------
(* The size of the scene *)

\* the objects of the scene with one of the given meshes
WithMesh(names) ==
    {i \in 1..Len(renderables) : \E n \in names : renderables[i].mesh = get_mesh(n)}

\* init_scene builds three objects of named meshes, one triangle for each
\* iteration of the grid loops and one object of the textured material
SceneComposition ==
    /\ Len(renderables) = SceneObjectCount(GridHalf)
    /\ Cardinality(WithMesh({"monkey", "wolf", "maleHuman"})) = 3
    /\ Cardinality(WithMesh({"triangle"})) = GridWidth * GridWidth
    /\ Cardinality({i \in 1..Len(renderables) :
                       renderables[i].material = get_material("texturedmesh")}) = 1
    /\ CodeSceneObjectCount = 3 + 41 * 41 + 1

\* C29 as stated: the scene init_scene builds, with its grid of 41 x 41
\* triangles, has 1,850 render objects.
C29_SceneHas1850Objects ==
    scenePc = "ready" => (SceneComposition /\ CodeSceneObjectCount = 1850)

\* C29: the scene init_scene builds (3 objects of named meshes, the 41 x 41
\* grid of triangles and 1 object of the textured material) has 1,685 render
\* objects.
C29_SceneHas1685Objects ==
    scenePc = "ready" => (SceneComposition /\ CodeSceneObjectCount = 1685)

\* the scene is built: the grid of the model stands between the three named
\* meshes and the map
C29_Witness ==
    /\ scenePc = "ready"
    /\ Len(added) = 4 + GridWidth * GridWidth
    /\ added[3].mesh = get_mesh("maleHuman")
    /\ added[4].mesh = get_mesh("triangle")
    /\ added[Len(added)].material = get_material("texturedmesh")
    /\ Len(renderables) = Len(added)

----------------------------------------------------------------------------
(* Semaphores: acquire, render, present *)

\* the operations on the same semaphore as operation k that come before it
EarlierOnSemaphore(k) ==
    {j \in 1..(k - 1) : semLog[j].semaphore = semLog[k].semaphore}

\* the last of them, 0 if there is none
LastOnSemaphore(k) ==
    IF EarlierOnSemaphore(k) = {} THEN 0
    ELSE CHOOSE j \in EarlierOnSemaphore(k) : \A i \in EarlierOnSemaphore(k) : i <= j

\* the semaphore operations of frame f, in the order they were handed over
OpsOfFrame(f) == SelectSeq(semLog, LAMBDA o : o.frame = f)

\* acquire signals image-available, the submission waits for it at the color
\* attachment output stage and signals render-done, the present waits for that
FrameSemaphoreOrder(f) ==
    LET s == f % FRAME_OVERLAP
    IN << SemaphoreOp("signal", "presentSemaphore", s, f, "vkAcquireNextImageKHR", "none"),
          SemaphoreOp("wait", "presentSemaphore", s, f, "vkQueueSubmit",
                      "VK_PIPELINE_STAGE_COLOR_ATTACHMENT_OUTPUT_BIT"),
          SemaphoreOp("signal", "renderSemaphore", s, f, "vkQueueSubmit", "none"),
          SemaphoreOp("wait", "renderSemaphore", s, f, "vkQueuePresentKHR", "none") >>

====
